---- MODULE Spec2Model ----
(***************************************************************************)
(* A model of costanza-mid: the effect runtime (eff.rs), the serial effect *)
(* manager (effects/serial.rs), the application's serial line parser       *)
(* (app/mod.rs), the gateway's client registry (effects/http/mod.rs) and   *)
(* the Application (app/mod.rs). Each component has its own specification, *)
(* in which the variables of the other components are parked at their      *)
(* initial values; SpecApp composes the Application with the gateway,      *)
(* SpecLink with the serial manager; SpecUpload and SpecConn give it the   *)
(* Messages of its managers directly; SpecGrbl is the GRBL response parser *)
(* (app/grbl/mod.rs) and SpecProxy the loop of Http::run.                  *)
(***************************************************************************)
EXTENDS Integers, Sequences, FiniteSets, TLC

VARIABLES
    \* ---- EffectRuntime (eff.rs) ----
    detached,      \* manager -> BOOLEAN: Effect::detach already handed out the endpoints
    channels,      \* EffectRuntime.channels: Seq of [mgr, filter], in registration order
    msgq,          \* manager -> its Message channel (manager sends, runtime receives)
    cmdq,          \* manager -> its Command channel (runtime sends, manager receives)
    stopped,       \* managers whose run() has returned: both channel ends it owned are dropped
    applied,       \* the Messages handed to Application::update so far, in order
    lastPub,       \* what the last publish_cmds call did: Seq of [cmd, to]
    rt_pc,         \* position of EffectRuntime::run: "new", "loop", "done"
    rt_result,     \* value returned by EffectRuntime::run: "none", "ok", "err"
    rt_failure,    \* the fatal condition the runtime met: "none", "closed-msg", "closed-sink"
    reg_last,      \* result of the last register call: "none", "ok", "err"
    sent,          \* number of Messages managers have sent
    emitted,       \* number of Commands the Application has returned
    frames,        \* number of frames executed
    \* ---- SerialParser::parse driven over one buffer (app/mod.rs) ----
    par_input,     \* the bytes the drain started from
    par_buf,       \* the bytes not yet consumed
    par_out,       \* the Messages returned so far, in order
    par_taken,     \* the consumed-byte counts returned so far
    par_done,      \* parse has returned None
    \* ---- grbl::Response::from_str applied to one line (app/grbl/mod.rs) ----
    grbl_line,     \* the line handed to from_str
    grbl_result,   \* what from_str returned, once it has
    \* ---- Serial::run (effects/serial.rs) ----
    port,              \* the open handle: NoPort, or the device it was opened on
    is_connected,      \* the edge-detection flag of run
    manual_disconnect, \* the latch set by Control(false)
    config,            \* self.config: NoConfig, or a device
    buffer,            \* self.buffer: bytes read and not yet consumed by the parser
    ser_commands,      \* the manager's Command channel (runtime sends, try_recv drains)
    rt_gone,           \* the runtime has dropped its ends of the manager's two channels
    ser_pc,            \* position of run: "poll", "backoff", "yield", "done"
    ser_result,        \* value returned by run: "none", "err"
    lifecycle,         \* the Connected / Disconnected Messages sent so far, in order
    iters,             \* loop iterations executed
    opens,             \* open attempts made
    need_backoff,      \* an open attempt has failed and no backoff sleep has completed since
    fault_pending,     \* a read or write has failed and no Disconnected was sent since
    io_after_fault,    \* a read or write succeeded while fault_pending
    last,              \* what the last iteration did: [was_connected, open, path, read,
                       \*   write, emit, parsed, written, drained]
    \* ---- the gateway: ws connections and the proxy task (effects/http/mod.rs) ----
    clients,           \* the registry of proxy_task: the ids it holds a sender for
    registration,      \* the registration channel: ids whose (id, sender) waits for the proxy
    gw_commands,       \* the command proxy channel: SendState commands for the proxy task
    gw_messages,       \* the message proxy channel: Messages of the connections
    conn,              \* id -> "unborn", "open", "closed": the connection task of that id
    inbox,             \* id -> the connection's private channel of SendState commands
    wire,              \* id -> the payloads written to that client's socket, in order,
                       \*   each with the id its command was addressed to
    proxy_alive,       \* the loop of proxy_task is still running
    gw_cmd_closed,     \* Http::run has returned: the command proxy sender is dropped
    gw_issued,         \* number of SendState commands issued
    gw_data,           \* number of data frames clients have sent
    gw_late,           \* the commands the proxy handled after their target had disconnected
    gw_failed,         \* the ids a send of the proxy task has failed for
    gw_rt_gone,        \* the effect runtime has dropped its ends of the http channels
    http_result,       \* value returned by Http::run: "none", "ok", "err"
    \* ---- the Application (app/mod.rs) ----
    application,       \* the Application value the runtime holds: [last_broadcast,
                       \*   connected_clients, serial |-> [connection, last_config]]
    now,               \* what Instant::now() returns, in seconds
    \* ---- Http::run, round by round (effects/http/mod.rs) ----
    http_commands,     \* self.commands: the Commands the effect runtime has sent
    http_messages,     \* self.messages: the Messages passed on to the effect runtime
    command_proxy,     \* the channel of commands to the server runtime
    message_proxy,     \* the channel of Messages from the server runtime
    command_handler,   \* the future of this round: [pc, item] with pc "recv" or "send"
    message_handler,   \* the other future of this round
    http_pc,           \* "top", "race", or what run returned: "ok", "err"
    http_gone,         \* the effect runtime has dropped its ends of the two channels
    made_commands,     \* every Command sent to the manager, in order
    made_messages      \* every Message the server runtime produced, in order

rtVars == <<detached, channels, msgq, cmdq, stopped, applied, lastPub, rt_pc,
            rt_result, rt_failure, reg_last, sent, emitted, frames>>

parVars == <<par_input, par_buf, par_out, par_taken, par_done, grbl_line, grbl_result>>

serVars == <<port, is_connected, manual_disconnect, config, buffer, ser_commands,
             rt_gone, ser_pc, ser_result, lifecycle, iters, opens, need_backoff,
             fault_pending, io_after_fault, last>>

gwRunVars == <<gw_rt_gone, http_result>>

gwVars == <<clients, registration, gw_commands, gw_messages, conn, inbox, wire,
            proxy_alive, gw_cmd_closed, gw_issued, gw_data, gw_late, gw_failed,
            gwRunVars>>

appVars == <<application, now>>

pxVars == <<http_commands, http_messages, command_proxy, message_proxy, command_handler,
            message_handler, http_pc, http_gone, made_commands, made_messages>>

vars == <<rtVars, parVars, serVars, gwVars, appVars, pxVars>>

\* ---------------------------------------------------------------- bounds
MaxMsgs == 3       \* Messages sent by managers in one run
MaxCmds == 2       \* Commands returned by the Application in one run
MaxFrames == 2     \* frames executed in one run
MaxParseLen == 4   \* bytes in a buffer handed to the parser
MaxIters == 3      \* iterations of Serial::run in one run
MaxCmdQ == 1       \* Commands waiting on the serial manager's channel
MaxBuf == 2        \* bytes accumulated in the serial manager's buffer
MaxSendTo == 2     \* SendState commands issued to the gateway in one run
MaxData == 1       \* data frames sent by clients in one run
MaxAppFrames == 3  \* Messages the Application is given in one run
MaxClock == 1      \* seconds the clock advances in one run
MaxUploadFrames == 5  \* Messages the Application is given in one run without clients
MaxConnFrames == 4    \* Messages the Application is given in one run without the gateway
MaxConnClock == 2     \* clock steps in such a run
MaxMoreFields == 4    \* fields of a status report after the coordinates
MaxProxyCommands == 3 \* Commands sent to the http manager in one run
MaxProxyMessages == 3 \* Messages produced by the server runtime in one run

\* ---------------------------------------------------------------- helpers
Range(s) == {s[i] : i \in 1..Len(s)}

SeqsUpTo(S, n) == UNION {[1..k -> S] : k \in 0..n}

\* ================================================================ EffectRuntime
Managers == {"m1", "m2"}
CmdKinds == {"serial", "http"}

\* An EffectCommandFilter is any predicate on Commands: here the set of kinds it accepts.
Filters == SUBSET CmdKinds

sendable(filter, cmd) == cmd.kind \in filter

Registered == {channels[i].mgr : i \in 1..Len(channels)}

\* The indexes of self.channels whose filter accepts cmd.
Accepting(cmd) == {i \in 1..Len(channels) : sendable(channels[i].filter, cmd)}

Min(S) == CHOOSE x \in S : \A y \in S : x <= y
Max(S) == CHOOSE x \in S : \A y \in S : x >= y

RECURSIVE SortedSeq(_)
SortedSeq(S) == IF S = {} THEN <<>> ELSE <<Min(S)>> \o SortedSeq(S \ {Min(S)})

\* Mutants of the scan of publish_cmds: no `break`, and a scan from the back.
SinksForNoBreak(cmd) == SortedSeq(Accepting(cmd))
SinksForLast(cmd) == IF Accepting(cmd) = {} THEN <<>> ELSE <<Max(Accepting(cmd))>>

\* The scan of publish_cmds: channels are visited in order, those that are not sendable
\* are skipped, and the loop breaks after the first send.
SinksFor(cmd) == IF Accepting(cmd) = {} THEN <<>> ELSE <<Min(Accepting(cmd))>>

\* Mutant of the channel: the newest value overtakes the queued ones.
sendFront(q, v) == <<v>> \o q

\* Sender::send on an unbounded channel: the value is queued behind those already there.
send(q, v) == Append(q, v)

\* Mutant of the channel: the newest queued value is received first.
recvLast(q) == [msg |-> q[Len(q)], rest |-> SubSeq(q, 1, Len(q) - 1)]

\* Receiver::recv on a channel that holds a value: the oldest one is taken.
recv(q) == [msg |-> Head(q), rest |-> Tail(q)]

RECURSIVE SendToStrict(_, _, _, _)
RECURSIVE SendTo(_, _, _, _)

\* Mutant: a Command that reached no sink makes publish_cmds fail.
SendToStrict(qs, cmd, sinks, to) ==
    IF sinks = <<>> THEN [qs |-> qs, ok |-> to # {}, to |-> to]
    ELSE LET m == channels[Head(sinks)].mgr IN
         IF m \in stopped THEN [qs |-> qs, ok |-> FALSE, to |-> to]
         ELSE SendToStrict([qs EXCEPT ![m] = send(@, cmd)], cmd, Tail(sinks),
                           to \cup {Head(sinks)})

\* cmd_sink.send(cmd) for each sink the scan reaches; a send fails when the manager has
\* dropped its receiver, and publish_cmds then returns Err at once.
SendTo(qs, cmd, sinks, to) ==
    IF sinks = <<>> THEN [qs |-> qs, ok |-> TRUE, to |-> to]
    ELSE LET m == channels[Head(sinks)].mgr IN
         IF m \in stopped THEN [qs |-> qs, ok |-> FALSE, to |-> to]
         ELSE SendTo([qs EXCEPT ![m] = send(@, cmd)], cmd, Tail(sinks),
                     to \cup {Head(sinks)})

\* publish_cmds: the outer loop over command_list.
RECURSIVE publish_cmds(_, _, _)
publish_cmds(qs, command_list, log) ==
    IF command_list = <<>> THEN [qs |-> qs, ok |-> TRUE, log |-> log]
    ELSE LET cmd == Head(command_list)
             r == SendTo(qs, cmd, SinksFor(cmd), {})
             entry == [cmd |-> cmd, to |-> r.to]
         IN IF ~r.ok THEN [qs |-> r.qs, ok |-> FALSE, log |-> Append(log, entry)]
            ELSE publish_cmds(r.qs, Tail(command_list), Append(log, entry))

\* The Command lists an Application may return: any kinds, numbered in emission order.
CommandLists ==
    {[i \in 1..Len(ks) |-> [kind |-> ks[i], n |-> emitted + i]] :
        ks \in SeqsUpTo(CmdKinds, MaxCmds - emitted)}

\* EffectRuntime::run: a failed frame is logged, the loop is left with `break`, and the
\* function ends with Ok(()).
RunResult(frame_ok) == IF frame_ok THEN "none" ELSE "ok"

RtInit ==
    /\ detached = [m \in Managers |-> FALSE]
    /\ channels = <<>>
    /\ msgq = [m \in Managers |-> <<>>]
    /\ cmdq = [m \in Managers |-> <<>>]
    /\ stopped = {}
    /\ applied = <<>>
    /\ lastPub = <<>>
    /\ rt_pc = "new"
    /\ rt_result = "none"
    /\ rt_failure = "none"
    /\ reg_last = "none"
    /\ sent = 0
    /\ emitted = 0
    /\ frames = 0

\* Mutant: detach hands the endpoints out again.
detachAgain(taken) == TRUE

\* Effect::detach: both endpoints are `take`n out of their Options; Ok on the first call,
\* the "already taken" error afterwards.
detach(taken) == ~taken

\* EffectRuntime::register: effect.detach()? and the push of the triple.
Register(m, filter) ==
    /\ rt_pc = "new"
    /\ IF ~detach(detached[m])
       THEN /\ reg_last' = "err"
            /\ UNCHANGED <<detached, channels>>
       ELSE /\ detached' = [detached EXCEPT ![m] = TRUE]
            /\ channels' = Append(channels, [mgr |-> m, filter |-> filter])
            /\ reg_last' = "ok"
    /\ UNCHANGED <<msgq, cmdq, stopped, applied, lastPub, rt_pc, rt_result,
                   rt_failure, sent, emitted, frames>>

\* Mutant: init enters the loop without publishing the Commands of Application::init.
RunInitNoPublish(command_list) ==
    /\ rt_pc = "new"
    /\ rt_pc' = "loop"
    /\ emitted' = emitted + Len(command_list)
    /\ lastPub' = <<>>
    /\ UNCHANGED <<detached, channels, msgq, cmdq, stopped, applied, rt_result,
                   rt_failure, reg_last, sent, frames>>

\* EffectRuntime::run up to the loop: init, which publishes the Commands of
\* Application::init and returns its error with `?`.
RunInit(command_list) ==
    /\ rt_pc = "new"
    /\ LET r == publish_cmds(cmdq, command_list, <<>>) IN
        /\ cmdq' = r.qs
        /\ lastPub' = r.log
        /\ emitted' = emitted + Len(command_list)
        /\ rt_pc' = IF r.ok THEN "loop" ELSE "done"
        /\ rt_result' = IF r.ok THEN "none" ELSE "err"
        /\ rt_failure' = IF r.ok THEN "none" ELSE "closed-sink"
    /\ UNCHANGED <<detached, channels, msgq, stopped, applied, reg_last, sent, frames>>

\* Mutant: the recv futures that lost the frame have each taken a Message with them.
drop_taking(qs, winner) ==
    [m \in DOMAIN qs |-> IF m = winner \/ qs[m] = <<>> THEN qs[m] ELSE Tail(qs[m])]

\* frame, drop(future_list): the recv futures of the other receivers are dropped; a recv
\* that has not returned has taken nothing from its channel.
drop(qs, winner) == qs

\* frame, happy path: a Message is received from the i-th registered receiver, applied
\* through Application::update, and the returned Commands are published.
FrameRecv(i, command_list) ==
    /\ rt_pc = "loop"
    /\ frames < MaxFrames
    /\ i \in 1..Len(channels)
    /\ LET m == channels[i].mgr IN
        /\ msgq[m] # <<>>
        /\ msgq' = drop([msgq EXCEPT ![m] = recv(@).rest], m)
        /\ applied' = Append(applied, recv(msgq[m]).msg)
    /\ LET r == publish_cmds(cmdq, command_list, <<>>) IN
        /\ cmdq' = r.qs
        /\ lastPub' = r.log
        /\ emitted' = emitted + Len(command_list)
        /\ rt_pc' = IF r.ok THEN "loop" ELSE "done"
        /\ rt_result' = RunResult(r.ok)
        /\ rt_failure' = IF r.ok THEN "none" ELSE "closed-sink"
    /\ frames' = frames + 1
    /\ UNCHANGED <<detached, channels, stopped, reg_last, sent>>

\* frame, sad path: recv on a closed and drained Message channel fails.
FrameClosed(i) ==
    /\ rt_pc = "loop"
    /\ frames < MaxFrames
    /\ i \in 1..Len(channels)
    /\ channels[i].mgr \in stopped
    /\ msgq[channels[i].mgr] = <<>>
    /\ rt_pc' = "done"
    /\ rt_result' = RunResult(FALSE)
    /\ rt_failure' = "closed-msg"
    /\ lastPub' = <<>>
    /\ frames' = frames + 1
    /\ UNCHANGED <<detached, channels, msgq, cmdq, stopped, applied, reg_last, sent,
                   emitted>>

\* frame, no-op paths: the 100ms timeout with nothing ready, or an empty future list.
FrameTimeout ==
    /\ rt_pc = "loop"
    /\ frames < MaxFrames
    /\ \A i \in 1..Len(channels) :
          /\ msgq[channels[i].mgr] = <<>>
          /\ channels[i].mgr \notin stopped
    /\ lastPub' = <<>>
    /\ frames' = frames + 1
    /\ UNCHANGED <<detached, channels, msgq, cmdq, stopped, applied, rt_pc, rt_result,
                   rt_failure, reg_last, sent, emitted>>

\* The Messages of manager m in a sequence of Messages, in order.
MessagesOf(m, seq) == SelectSeq(seq, LAMBDA x : x.from = m)

\* A manager's task sends a Message on its channel; a manager's Messages are numbered in
\* the order it sends them.
ManagerSend(m) ==
    /\ m \in Registered
    /\ m \notin stopped
    /\ sent < MaxMsgs
    /\ msgq' = [msgq EXCEPT ![m] =
                   send(@, [from |-> m,
                            n |-> Len(MessagesOf(m, applied)) + Len(msgq[m]) + 1])]
    /\ sent' = sent + 1
    /\ UNCHANGED <<detached, channels, cmdq, stopped, applied, lastPub, rt_pc,
                   rt_result, rt_failure, reg_last, emitted, frames>>

\* A manager's run() returns: the Message sender and Command receiver it owns are dropped.
ManagerStop(m) ==
    /\ m \in Registered
    /\ m \notin stopped
    /\ rt_pc # "done"
    /\ stopped' = stopped \cup {m}
    /\ UNCHANGED <<detached, channels, msgq, cmdq, applied, lastPub, rt_pc, rt_result,
                   rt_failure, reg_last, sent, emitted, frames>>


\* ================================================================ SerialParser::parse
Newline == 10
ReplacementChar == 65533

\* The bytes the model feeds the parser: '\n', 'o', the two bytes of U+00E9, and 0xFF.
\* None of them starts a three- or four-byte UTF-8 sequence.
ByteAlphabet == {10, 111, 195, 169, 255}

IsContinuation(b) == b >= 128 /\ b <= 191
IsLead2(b) == b >= 194 /\ b <= 223

\* String::from_utf8_lossy: the chars (code points) of the decoded string; every byte
\* that is not part of a well-formed sequence becomes U+FFFD.
RECURSIVE from_utf8_lossy(_)
from_utf8_lossy(bytes) ==
    IF bytes = <<>> THEN <<>>
    ELSE LET b == Head(bytes) IN
         IF b < 128 THEN <<b>> \o from_utf8_lossy(Tail(bytes))
         ELSE IF IsLead2(b) /\ Len(bytes) >= 2 /\ IsContinuation(bytes[2])
              THEN <<(b - 192) * 64 + (bytes[2] - 128)>>
                       \o from_utf8_lossy(SubSeq(bytes, 3, Len(bytes)))
              ELSE <<ReplacementChar>> \o from_utf8_lossy(Tail(bytes))

\* char::len_utf8
len_utf8(c) == IF c < 128 THEN 1 ELSE IF c < 2048 THEN 2 ELSE 3

\* The byte offset in the string of its k-th char boundary (k chars before it).
RECURSIVE ByteOffset(_, _)
ByteOffset(str, k) == IF k = 0 THEN 0 ELSE ByteOffset(str, k - 1) + len_utf8(str[k])

\* str::find('\n'): the byte offset of the first newline, or -1.
find(str) ==
    IF \E i \in 1..Len(str) : str[i] = Newline
    THEN ByteOffset(str, Min({i \in 1..Len(str) : str[i] = Newline}) - 1)
    ELSE -1

is_char_boundary(str, index) == \E k \in 0..Len(str) : ByteOffset(str, k) = index

\* Iterator::take(n) on the chars of the string.
take(str, n) == SubSeq(str, 1, IF n < Len(str) THEN n ELSE Len(str))

\* Iterator::skip(n) on the bytes of the buffer.
skip(bytes, n) == SubSeq(bytes, n + 1, Len(bytes))

\* SerialParser::parse: None, or the Message and the number of bytes it consumes.
parse(bytes) ==
    LET appearance == from_utf8_lossy(bytes)
        boundary == find(appearance)
    IN IF boundary >= 0 /\ is_char_boundary(appearance, boundary)
       THEN [some |-> TRUE, message |-> take(appearance, boundary),
             bytes_taken |-> boundary + 1]
       ELSE [some |-> FALSE, message |-> <<>>, bytes_taken |-> 0]

\* No line has been handed to grbl::Response::from_str.
Pending == [kind |-> "Pending", state |-> "", x |-> 0, y |-> 0, z |-> 0, error |-> ""]

GrblParked ==
    /\ grbl_line = <<>>
    /\ grbl_result = Pending

ParInit ==
    /\ par_input \in SeqsUpTo(ByteAlphabet, MaxParseLen)
    /\ par_buf = par_input
    /\ par_out = <<>>
    /\ par_taken = <<>>
    /\ par_done = FALSE
    /\ GrblParked

ParIdle ==
    /\ par_input = <<>>
    /\ par_buf = <<>>
    /\ par_out = <<>>
    /\ par_taken = <<>>
    /\ par_done = FALSE

ParParked == ParIdle /\ GrblParked

\* One call of the parser on what is left, as Serial::run makes it: a returned Message
\* is passed on and the consumed bytes are skipped.
ParseCall ==
    /\ ~par_done
    /\ LET r == parse(par_buf) IN
        IF r.some
        THEN /\ par_out' = Append(par_out, r.message)
             /\ par_taken' = Append(par_taken, r.bytes_taken)
             /\ par_buf' = skip(par_buf, r.bytes_taken)
             /\ UNCHANGED <<par_input, par_done>>
        ELSE /\ par_done' = TRUE
             /\ UNCHANGED <<par_input, par_buf, par_out, par_taken>>
    /\ UNCHANGED <<grbl_line, grbl_result>>

\* ================================================================ grbl::Response
\* A line is a sequence of pieces of text: the marks "<", ">" and ",", the words of the
\* machine states, the prefixes "MPos:" and "WPos:", numerals and other words. No piece
\* has a comma inside and no piece is part of a longer word.
Comma == ","

\* The numerals f32's parse accepts, with their values.
NumValue == ("0" :> 0) @@ ("1.000" :> 1) @@ ("2.000" :> 2) @@ ("3.000" :> 3)

\* Mutant: every state token is taken for a machine state.
MachineState_accepts_any(token) ==
    IF Len(token) = 1 THEN [ok |-> TRUE, state |-> token[1]]
    ELSE [ok |-> TRUE, state |-> "Idle"]

\* MachineState::from_str
MachineState_from_str(token) ==
    IF token \in {<<"Idle">>, <<"Run">>, <<"Home">>, <<"Alarm">>}
    THEN [ok |-> TRUE, state |-> token[1]]
    ELSE [ok |-> FALSE, state |-> ""]

\* chars.take_while(|c| *c != ',')
RECURSIVE take_while_not_comma(_)
take_while_not_comma(text) ==
    IF text = <<>> \/ Head(text) = Comma THEN <<>>
    ELSE <<Head(text)>> \o take_while_not_comma(Tail(text))

\* str::split(','): the texts between the commas, at least one.
RECURSIVE split(_)
split(text) ==
    LET first == take_while_not_comma(text) IN
    IF Len(first) = Len(text) THEN <<first>>
    ELSE <<first>> \o split(SubSeq(text, Len(first) + 2, Len(text)))

\* str::trim_start_matches("MPos:")
RECURSIVE trim_start_matches(_)
trim_start_matches(text) ==
    IF text # <<>> /\ Head(text) = "MPos:" THEN trim_start_matches(Tail(text))
    ELSE text

\* str::parse::<f32>
parse_f32(text) ==
    IF Len(text) = 1 /\ text[1] \in DOMAIN NumValue
    THEN [ok |-> TRUE, value |-> NumValue[text[1]]]
    ELSE [ok |-> FALSE, value |-> 0]

\* Response::Ok, Response::Status(state, MachinePosition { x, y, z }) and the errors
Ok == [kind |-> "Ok", state |-> "", x |-> 0, y |-> 0, z |-> 0, error |-> ""]

Status(state, x, y, z) ==
    [kind |-> "Status", state |-> state, x |-> x, y |-> y, z |-> z, error |-> ""]

Err(error) == [kind |-> "Err", state |-> "", x |-> 0, y |-> 0, z |-> 0, error |-> error]

\* Response::from_str
Response_from_str(input) ==
    IF input = <<"ok">> THEN Ok
    ELSE IF input # <<>> /\ Head(input) = "<"
    THEN LET state == MachineState_from_str(take_while_not_comma(Tail(input)))
             bits == Tail(split(input))
         IN IF ~state.ok THEN Err("bad machine state")
            ELSE IF Len(bits) = 6 /\ bits[1] # <<>> /\ Head(bits[1]) = "MPos:"
            THEN LET x == parse_f32(trim_start_matches(bits[1]))
                     y == parse_f32(bits[2])
                     z == parse_f32(bits[3])
                 IN IF x.ok /\ y.ok /\ z.ok
                    THEN Status(state.state, x.value, y.value, z.value)
                    ELSE Err("bad machine pos")
            ELSE Err("bad status bits")
    ELSE Err("unknown grbl response")

\* The lines the device may send. A status report is "<", a state token, and fields
\* each after a comma: a first field, two coordinates, further fields, and ">".
StateTokens == {<<"Idle">>, <<"Run">>, <<"Home">>, <<"Alarm">>, <<"Bogus">>, <<>>}
FirstFields == {<<"MPos:", "1.000">>, <<"MPos:", "abc">>, <<"WPos:", "1.000">>,
                <<"1.000">>}
Coordinates == {<<"2.000">>, <<"3.000">>, <<"abc">>}

Reports ==
    [token : StateTokens, first : FirstFields, y : Coordinates, z : Coordinates,
     more : 0..MaxMoreFields]

RECURSIVE MoreFields(_)
MoreFields(n) == IF n = 0 THEN <<>> ELSE <<Comma, "0">> \o MoreFields(n - 1)

ReportLine(r) ==
    <<"<">> \o r.token \o <<Comma>> \o r.first \o <<Comma>> \o r.y \o <<Comma>> \o r.z
        \o (IF r.more = 0 THEN <<>> ELSE <<Comma, "WPos:", "0">> \o MoreFields(r.more - 1))
        \o <<">">>

OtherLines == {<<"ok">>, <<"ok", "ok">>, <<"error:1">>, <<>>, <<"<">>, <<"Run">>}

GrblLines == {ReportLine(r) : r \in Reports} \cup OtherLines

GrblInit ==
    /\ grbl_line \in GrblLines
    /\ grbl_result = Pending

\* One line is parsed.
GrblParse ==
    /\ grbl_result = Pending
    /\ grbl_result' = Response_from_str(grbl_line)
    /\ UNCHANGED <<grbl_line, par_input, par_buf, par_out, par_taken, par_done>>

\* ================================================================ Serial::run
NoPort == "none"
NoConfig == "none"
Devices == {"devA", "devB"}

\* What SerialCommandMap::translate makes of the Commands on the channel: Control(bool),
\* Configure(config), Data(payload), or None for a Command that is not a serial one.
SerialCommands ==
    {[k |-> "control", v |-> b] : b \in BOOLEAN}
        \cup {[k |-> "configure", v |-> dev] : dev \in Devices}
        \cup {[k |-> "data", v |-> "?"], [k |-> "unmapped", v |-> "http"]}

\* format!("{serializable}") of a Data payload: the Display impl writes the text and a
\* newline.
Format(payload) == <<payload, "\n">>

\* The bytes one read may return (Ok(amount) with amount = 0, 1 or 2).
ReadChunks == {<<>>, <<111>>, <<10>>, <<111, 10>>}

ReadOutcomes == {[kind |-> "timeout", data |-> <<>>], [kind |-> "error", data |-> <<>>]}
                    \cup {[kind |-> "ok", data |-> c] : c \in ReadChunks}

IdleLast == [was_connected |-> FALSE, open |-> "none", path |-> "none", read |-> "none",
             write |-> "none", emit |-> <<>>, parsed |-> <<>>, written |-> <<>>,
             drained |-> <<>>]

SerInitWith(cfg) ==
    /\ port = NoPort
    /\ is_connected = FALSE
    /\ manual_disconnect = FALSE
    /\ config = cfg
    /\ buffer = <<>>
    /\ ser_commands = <<>>
    /\ rt_gone = FALSE
    /\ ser_pc = "poll"
    /\ ser_result = "none"
    /\ lifecycle = <<>>
    /\ iters = 0
    /\ opens = 0
    /\ need_backoff = FALSE
    /\ fault_pending = FALSE
    /\ io_after_fault = FALSE
    /\ last = IdleLast

\* Serial::new(config, parser): the configuration is optional.
SerInit == \E cfg \in {NoConfig} \cup Devices : SerInitWith(cfg)

SerParked == SerInitWith(NoConfig)

\* Mutants of the two edge tests.
EmitConnectedAlways(was_connected) == TRUE
EmitDisconnectedAlways(was_connected) == TRUE

\* `if !is_connected` around the send of glue.connected().
EmitConnected(was_connected) == ~was_connected

\* `if is_connected` around the send of glue.disconnected().
EmitDisconnected(was_connected) == was_connected

\* Mutant: the disconnected path continues without its sleep.
AfterDisconnectedNoSleep == "poll"

\* The disconnected path ends in sleep(2s) and `continue`.
AfterDisconnected == "backoff"

\* Mutant: a failed read ends the loop.
AfterReadErrorFatal == "done"

\* The `Err(error)` arm of the read: the handle is cleared, sleep(2s) and `continue`.
AfterReadError == "backoff"

\* Mutant: the open is attempted whatever the latch says.
OpenAttemptIgnoringLatch(manual, cfg, prt) == cfg # NoConfig /\ prt = NoPort

\* The arm `(_, Some(config), None)` of the reconciliation, reached only when the arm
\* `(true, _, _)` above it did not match.
OpenAttempt(manual, cfg, prt) == ~manual /\ cfg # NoConfig /\ prt = NoPort

\* Mutant: the payload drained without a handle is written all the same.
WriteWithoutHandleAnyway(payload) == payload

\* The disconnected path, `if let Some(dropped) = sendable_command`: the payload is
\* logged as dropped; nothing is written and nothing is kept for a later iteration.
WriteWithoutHandle(payload) == <<>>

\* The match on try_recv and translate: the latch, the handle, the configuration and the
\* payload to write, after the Command (if any) has been handled.
Drained ==
    LET keep == [closed |-> FALSE, manual |-> manual_disconnect, port |-> port,
                 config |-> config, sendable |-> <<>>]
    IN IF ser_commands = <<>> THEN [keep EXCEPT !.closed = rt_gone]
       ELSE LET c == Head(ser_commands) IN
            CASE c.k = "control" /\ c.v -> [keep EXCEPT !.manual = FALSE]
              [] c.k = "control" /\ ~c.v -> [keep EXCEPT !.manual = TRUE, !.port = NoPort]
              [] c.k = "configure" -> [keep EXCEPT !.config = c.v]
              [] c.k = "data" -> [keep EXCEPT !.sendable = Format(c.v)]
              [] OTHER -> keep

\* The loop's exits with Err: `break Err(..)` and the `?` on a failed send.
SerTerminate(d, connected, emit, attempt, open_ok) ==
    /\ ser_pc' = "done"
    /\ ser_result' = "err"
    /\ port' = NoPort
    /\ is_connected' = connected
    /\ manual_disconnect' = d.manual
    /\ config' = d.config
    /\ lifecycle' = lifecycle \o emit
    /\ opens' = opens + (IF attempt THEN 1 ELSE 0)
    /\ need_backoff' = ((attempt /\ ~open_ok) \/ need_backoff)
    /\ last' = [IdleLast EXCEPT !.was_connected = is_connected, !.path = "terminated",
                                !.emit = emit, !.drained = d.sendable,
                                !.open = IF ~attempt THEN "none"
                                         ELSE IF open_ok THEN "ok" ELSE "fail"]
    /\ UNCHANGED <<buffer, fault_pending, io_after_fault>>

\* One iteration of the loop of Serial::run, from try_recv to the sleep that ends it.
SerialStep(open_ok, rd, write_ok) ==
    /\ ser_pc = "poll"
    /\ iters < MaxIters
    /\ iters' = iters + 1
    /\ ser_commands' = IF ser_commands = <<>> THEN <<>> ELSE Tail(ser_commands)
    /\ UNCHANGED rt_gone
    /\ LET d == Drained
           \* the match on (manual_disconnect, config, port)
           attempt == OpenAttempt(d.manual, d.config, d.port)
           new_port == IF d.manual THEN NoPort
                       ELSE IF attempt THEN (IF open_ok THEN d.config ELSE NoPort)
                       ELSE d.port
           opened == attempt /\ open_ok
           emitC == opened /\ EmitConnected(is_connected)
           conn1 == is_connected \/ emitC
           emit1 == IF emitC THEN <<"Connected">> ELSE <<>>
           open_res == IF ~attempt THEN "none" ELSE IF open_ok THEN "ok" ELSE "fail"
           nb1 == (attempt /\ ~open_ok) \/ need_backoff
       IN
       IF d.closed THEN SerTerminate(d, is_connected, <<>>, FALSE, FALSE)
       ELSE IF emitC /\ rt_gone THEN SerTerminate(d, TRUE, <<>>, attempt, open_ok)
       ELSE IF new_port = NoPort
       THEN \* disconnected path
            LET emitD == EmitDisconnected(conn1) IN
            IF emitD /\ rt_gone THEN SerTerminate(d, FALSE, emit1, attempt, open_ok)
            ELSE /\ port' = NoPort
                 /\ is_connected' = IF emitD THEN FALSE ELSE conn1
                 /\ manual_disconnect' = d.manual
                 /\ config' = d.config
                 /\ lifecycle' = lifecycle \o emit1
                                     \o (IF emitD THEN <<"Disconnected">> ELSE <<>>)
                 /\ opens' = opens + (IF attempt THEN 1 ELSE 0)
                 /\ need_backoff' = nb1
                 /\ fault_pending' = (fault_pending /\ ~emitD)
                 /\ ser_pc' = AfterDisconnected
                 /\ last' = [IdleLast EXCEPT
                               !.was_connected = is_connected, !.open = open_res,
                               !.path = "disconnected", !.drained = d.sendable,
                               !.written = WriteWithoutHandle(d.sendable),
                               !.emit = emit1 \o (IF emitD THEN <<"Disconnected">>
                                                  ELSE <<>>)]
                 /\ UNCHANGED <<buffer, ser_result, io_after_fault>>
       ELSE IF rd.kind = "error"
       THEN \* the read failed: the handle is cleared, sleep(2s), continue
            /\ port' = NoPort
            /\ is_connected' = conn1
            /\ manual_disconnect' = d.manual
            /\ config' = d.config
            /\ lifecycle' = lifecycle \o emit1
            /\ opens' = opens + (IF attempt THEN 1 ELSE 0)
            /\ need_backoff' = nb1
            /\ fault_pending' = TRUE
            /\ ser_pc' = AfterReadError
            /\ last' = [IdleLast EXCEPT
                          !.was_connected = is_connected, !.open = open_res,
                          !.path = "read-error", !.read = "error", !.emit = emit1,
                          !.drained = d.sendable]
            /\ UNCHANGED <<buffer, ser_result, io_after_fault>>
       ELSE \* connected path: read, parse once, write, sleep(50ms)
            LET buf1 == buffer \o rd.data
                r == IF buf1 = <<>> THEN [some |-> FALSE, message |-> <<>>,
                                          bytes_taken |-> 0]
                     ELSE parse(buf1)
                wrote == d.sendable # <<>>
                io_ok == rd.kind = "ok" \/ (wrote /\ write_ok)
            IN
            /\ Len(buf1) <= MaxBuf
            /\ IF r.some /\ rt_gone
               THEN \* the parsed Message cannot be sent: break Err
                    /\ ser_pc' = "done"
                    /\ ser_result' = "err"
                    /\ port' = NoPort
                    /\ buffer' = buf1
                    /\ fault_pending' = fault_pending
                    /\ io_after_fault' = (io_after_fault
                                             \/ (fault_pending /\ rd.kind = "ok"))
                    /\ last' = [IdleLast EXCEPT
                                  !.was_connected = is_connected, !.open = open_res,
                                  !.path = "terminated", !.read = rd.kind,
                                  !.emit = emit1, !.drained = d.sendable]
               ELSE /\ ser_pc' = "yield"
                    /\ ser_result' = ser_result
                    /\ port' = IF wrote /\ ~write_ok THEN NoPort ELSE new_port
                    /\ buffer' = IF r.some THEN skip(buf1, r.bytes_taken) ELSE buf1
                    /\ fault_pending' = (fault_pending \/ (wrote /\ ~write_ok))
                    /\ io_after_fault' = (io_after_fault \/ (fault_pending /\ io_ok))
                    /\ last' = [was_connected |-> is_connected, open |-> open_res,
                                path |-> "connected", read |-> rd.kind,
                                write |-> IF ~wrote THEN "none"
                                          ELSE IF write_ok THEN "ok" ELSE "error",
                                emit |-> emit1,
                                parsed |-> IF r.some THEN <<r.message>> ELSE <<>>,
                                written |-> IF wrote /\ write_ok THEN d.sendable
                                            ELSE <<>>,
                                drained |-> d.sendable]
            /\ is_connected' = conn1
            /\ manual_disconnect' = d.manual
            /\ config' = d.config
            /\ lifecycle' = lifecycle \o emit1
            /\ opens' = opens + (IF attempt THEN 1 ELSE 0)
            /\ need_backoff' = nb1

\* async_std::task::sleep(2s) has elapsed.
BackoffSleep ==
    /\ ser_pc = "backoff"
    /\ ser_pc' = "poll"
    /\ need_backoff' = FALSE
    /\ UNCHANGED <<port, is_connected, manual_disconnect, config, buffer, ser_commands,
                   rt_gone, ser_result, lifecycle, iters, opens, fault_pending,
                   io_after_fault, last>>

\* async_std::task::sleep(50ms) has elapsed.
YieldSleep ==
    /\ ser_pc = "yield"
    /\ ser_pc' = "poll"
    /\ UNCHANGED <<port, is_connected, manual_disconnect, config, buffer, ser_commands,
                   rt_gone, ser_result, lifecycle, iters, opens, need_backoff,
                   fault_pending, io_after_fault, last>>

\* The runtime publishes a Command on the serial manager's channel.
SerEnqueue(c) ==
    /\ ~rt_gone
    /\ ser_pc # "done"
    /\ Len(ser_commands) < MaxCmdQ
    /\ ser_commands' = Append(ser_commands, c)
    /\ UNCHANGED <<port, is_connected, manual_disconnect, config, buffer, rt_gone,
                   ser_pc, ser_result, lifecycle, iters, opens, need_backoff,
                   fault_pending, io_after_fault, last>>

\* The runtime ends: its Command sender and Message receiver are dropped.
RuntimeGone ==
    /\ ~rt_gone
    /\ ser_pc # "done"
    /\ rt_gone' = TRUE
    /\ UNCHANGED <<port, is_connected, manual_disconnect, config, buffer, ser_commands,
                   ser_pc, ser_result, lifecycle, iters, opens, need_backoff,
                   fault_pending, io_after_fault, last>>

\* ================================================================ gateway
\* The identifiers uuid::Uuid::new_v4 mints: one per connection, never reused.
ClientIds == {"a", "b"}

GwInit ==
    /\ clients = {}
    /\ registration = <<>>
    /\ gw_commands = <<>>
    /\ gw_messages = <<>>
    /\ conn = [id \in ClientIds |-> "unborn"]
    /\ inbox = [id \in ClientIds |-> <<>>]
    /\ wire = [id \in ClientIds |-> <<>>]
    /\ proxy_alive = TRUE
    /\ gw_cmd_closed = FALSE
    /\ gw_rt_gone = FALSE
    /\ http_result = "none"
    /\ gw_issued = 0
    /\ gw_data = 0
    /\ gw_late = {}
    /\ gw_failed = {}

\* ws, up to its loop: the id is minted, ClientConnected is sent, then the registration.
WsConnect(id) ==
    /\ proxy_alive
    /\ conn[id] = "unborn"
    /\ conn' = [conn EXCEPT ![id] = "open"]
    /\ gw_messages' = Append(gw_messages, [kind |-> "ClientConnected", id |-> id, data |-> ""])
    /\ registration' = Append(registration, id)
    /\ UNCHANGED gwRunVars
    /\ UNCHANGED <<clients, gw_commands, inbox, wire, proxy_alive, gw_cmd_closed,
                   gw_issued, gw_data, gw_late, gw_failed>>

\* Mutant: a connection that has sent ClientDisconnected still passes on a text frame.
WsClientDataAfterEnd(id, data) ==
    /\ conn[id] # "unborn"
    /\ gw_data < MaxData
    /\ gw_data' = gw_data + 1
    /\ gw_messages' = Append(gw_messages,
                             [kind |-> "ClientData", id |-> id, data |-> data])
    /\ UNCHANGED gwRunVars
    /\ UNCHANGED <<clients, registration, gw_commands, conn, inbox, wire, proxy_alive,
                   gw_cmd_closed, gw_issued, gw_late, gw_failed>>

\* ws loop, client_input wins with a text frame: ClientData is sent.
WsClientData(id, data) ==
    /\ conn[id] = "open"
    /\ gw_data < MaxData
    /\ gw_data' = gw_data + 1
    /\ gw_messages' = Append(gw_messages,
                             [kind |-> "ClientData", id |-> id, data |-> data])
    /\ UNCHANGED gwRunVars
    /\ UNCHANGED <<clients, registration, gw_commands, conn, inbox, wire, proxy_alive,
                   gw_cmd_closed, gw_issued, gw_late, gw_failed>>

\* ws loop, application_input wins: the payload is written with send_string; a failed
\* write breaks the loop, ClientDisconnected is sent and the task ends.
WsCommand(id, send_ok) ==
    /\ conn[id] = "open"
    /\ inbox[id] # <<>>
    /\ IF send_ok
       THEN /\ wire' = [wire EXCEPT ![id] = Append(@, Head(inbox[id]))]
            /\ inbox' = [inbox EXCEPT ![id] = Tail(@)]
            /\ UNCHANGED <<conn, gw_messages>>
       ELSE /\ conn' = [conn EXCEPT ![id] = "closed"]
            /\ inbox' = [inbox EXCEPT ![id] = <<>>]
            /\ gw_messages' = Append(gw_messages,
                          [kind |-> "ClientDisconnected", id |-> id, data |-> ""])
            /\ UNCHANGED wire
    /\ UNCHANGED gwRunVars
    /\ UNCHANGED <<clients, registration, gw_commands, proxy_alive, gw_cmd_closed,
                   gw_issued, gw_data, gw_late, gw_failed>>

\* ws loop, client_input wins with end-of-stream or an error: the loop breaks,
\* ClientDisconnected is sent and the task ends, dropping the private receiver.
WsEnd(id) ==
    /\ conn[id] = "open"
    /\ conn' = [conn EXCEPT ![id] = "closed"]
    /\ inbox' = [inbox EXCEPT ![id] = <<>>]
    /\ gw_messages' = Append(gw_messages,
                             [kind |-> "ClientDisconnected", id |-> id, data |-> ""])
    /\ UNCHANGED gwRunVars
    /\ UNCHANGED <<clients, registration, gw_commands, wire, proxy_alive,
                   gw_cmd_closed, gw_issued, gw_data, gw_late, gw_failed>>

\* Mutant of the lookup: every registered client's sender is returned.
getAny(id) == clients

\* clients.get(id) of proxy_task: the registered senders the command is sent on.
get(id) == IF id \in clients THEN {id} ELSE {}

\* Mutant: a failed send to a client ends the proxy task.
SendFailureBreaks == FALSE

\* proxy_task, `if let Err(error) = sender.send(..)`: the failure is logged and the cmd
\* future still returns Ok(()), so the loop goes on.
SendFailureContinues == TRUE

\* proxy_task after a failed send: the registry is left as it is.
RegistryAfterFailure(id) == clients

\* proxy_task, cmd wins the race: a SendState is received, its id looked up in the
\* registry, and the command sent on that client's private channel if there is one.
ProxyCmd ==
    /\ proxy_alive
    /\ gw_commands # <<>>
    /\ gw_commands' = Tail(gw_commands)
    /\ LET c == Head(gw_commands)
           fails == \E i \in get(c.id) : conn[i] # "open"
       IN /\ inbox' = [i \in ClientIds |->
                          IF i \in get(c.id) /\ conn[i] = "open"
                          THEN Append(inbox[i], c) ELSE inbox[i]]
          /\ clients' = IF fails THEN RegistryAfterFailure(c.id) ELSE clients
          /\ proxy_alive' = (~fails \/ SendFailureContinues)
          /\ gw_failed' = IF fails THEN gw_failed \cup {c.id} ELSE gw_failed
          /\ gw_late' = IF conn[c.id] = "closed" THEN gw_late \cup {c.data} ELSE gw_late
    /\ UNCHANGED gwRunVars
    /\ UNCHANGED <<registration, gw_messages, conn, wire, gw_cmd_closed, gw_issued,
                   gw_data>>

\* proxy_task, rec wins the race: a registration is received and inserted.
ProxyRec ==
    /\ proxy_alive
    /\ registration # <<>>
    /\ registration' = Tail(registration)
    /\ clients' = clients \cup {Head(registration)}
    /\ UNCHANGED gwRunVars
    /\ UNCHANGED <<gw_commands, gw_messages, conn, inbox, wire, proxy_alive,
                   gw_cmd_closed, gw_issued, gw_data, gw_late, gw_failed>>

\* proxy_task, commands.recv() fails on the closed and drained channel: the loop breaks.
ProxyClosed ==
    /\ proxy_alive
    /\ gw_cmd_closed
    /\ gw_commands = <<>>
    /\ proxy_alive' = FALSE
    /\ UNCHANGED gwRunVars
    /\ UNCHANGED <<clients, registration, gw_commands, gw_messages, conn, inbox, wire,
                   gw_cmd_closed, gw_issued, gw_data, gw_late, gw_failed>>

\* Http::run, command_handler: a SendState(id, payload) of the Application is passed on
\* to the command proxy channel. Payloads are numbered in the order they are issued.
HttpCommand(id) ==
    /\ ~gw_cmd_closed
    /\ ~gw_rt_gone
    /\ gw_issued < MaxSendTo
    /\ gw_issued' = gw_issued + 1
    /\ gw_commands' = Append(gw_commands, [id |-> id, data |-> gw_issued + 1])
    /\ UNCHANGED gwRunVars
    /\ UNCHANGED <<clients, registration, gw_messages, conn, inbox, wire, proxy_alive,
                   gw_cmd_closed, gw_data, gw_late, gw_failed>>

\* Http::run, message_handler: the next Message of the server runtime is passed on to
\* the effect runtime.
HttpMessage ==
    /\ ~gw_cmd_closed
    /\ ~gw_rt_gone
    /\ gw_messages # <<>>
    /\ gw_messages' = Tail(gw_messages)
    /\ UNCHANGED gwRunVars
    /\ UNCHANGED <<clients, registration, gw_commands, conn, inbox, wire, proxy_alive,
                   gw_cmd_closed, gw_issued, gw_data, gw_late, gw_failed>>

\* The effect runtime ends: its ends of the http manager's two channels are dropped.
GwRuntimeGone ==
    /\ ~gw_rt_gone
    /\ ~gw_cmd_closed
    /\ gw_rt_gone' = TRUE
    /\ UNCHANGED http_result
    /\ UNCHANGED <<clients, registration, gw_commands, gw_messages, conn, inbox, wire,
                   proxy_alive, gw_cmd_closed, gw_issued, gw_data, gw_late, gw_failed>>

\* The value Http::run returns: Ok(()) when the `any_closed` test at the top of its loop
\* sees the closed channel, the "http-runtime failure" error when a handler of the race
\* meets it first and the loop breaks.
HttpRunResult(seen_at_top) == IF seen_at_top THEN "ok" ELSE "err"

\* Http::run returns: the command proxy sender it owns is dropped.
HttpStops(seen_at_top) ==
    /\ ~gw_cmd_closed
    /\ gw_rt_gone
    /\ gw_cmd_closed' = TRUE
    /\ http_result' = HttpRunResult(seen_at_top)
    /\ UNCHANGED gw_rt_gone
    /\ UNCHANGED <<clients, registration, gw_commands, gw_messages, conn, inbox, wire,
                   proxy_alive, gw_issued, gw_data, gw_late, gw_failed>>

\* ================================================================ Http::run, the loop
\* The loop of Http::run one future at a time. The server runtime keeps its ends of the
\* two proxy channels throughout; the effect runtime may drop its ends.

\* channel::unbounded(), and a channel that holds at most cap items
unbounded == [limited |-> FALSE, cap |-> 0]
bounded(cap) == [limited |-> TRUE, cap |-> cap]

\* Sender::send has to wait: the channel is bounded and full.
is_full(queue, capacity) == capacity.limited /\ Len(queue) >= capacity.cap

\* Mutant: the manager's own Message channel holds one Message.
messages_capacity_one == bounded(1)

\* Http::new, `let messages = channel::unbounded()`
messages_capacity == unbounded

\* Http::run, `let command_proxy = channel::unbounded()`
command_proxy_capacity == unbounded

\* The Commands of the Application: Command::Http(inner) and the others.
HttpCmd(inner) == [kind |-> "Http", inner |-> inner]
OtherCmd(inner) == [kind |-> "Serial", inner |-> inner]

\* The command_mapper run hands to Http::run: Some(inner) for Command::Http(inner).
command_mapper(c) ==
    IF c.kind = "Http" THEN [some |-> TRUE, value |-> c.inner]
    ELSE [some |-> FALSE, value |-> c.inner]

\* The message_mapper run hands to Http::run: Message::Http
message_mapper(message) == [kind |-> "Http", inner |-> message]

\* A future of a round before its first poll, and one waiting in send with an item.
Receiving == [pc |-> "recv", item |-> <<>>]
Sending(item) == [pc |-> "send", item |-> <<item>>]

\* What a poll of a handler gives: the future is Ready with Ok or Err, or Pending in
\* state fut; from and to are its two channels afterwards.
Polled(ready, ok, fut, from, to) ==
    [ready |-> ready, ok |-> ok, fut |-> fut, from |-> from, to |-> to]

\* command_handler from `command_proxy.0.send(inner).await` on
command_send(inner, commands, proxy) ==
    IF is_full(proxy, command_proxy_capacity)
    THEN Polled(FALSE, TRUE, Sending(inner), commands, proxy)
    ELSE Polled(TRUE, TRUE, Receiving, commands, Append(proxy, inner))

\* One poll of command_handler.
poll_command_handler(fut, commands, proxy, gone) ==
    IF fut.pc = "send" THEN command_send(fut.item[1], commands, proxy)
    ELSE IF commands = <<>>
         THEN Polled(gone, FALSE, fut, commands, proxy)
         ELSE LET mapped == command_mapper(Head(commands)) IN
              IF mapped.some THEN command_send(mapped.value, Tail(commands), proxy)
              ELSE Polled(TRUE, TRUE, Receiving, Tail(commands), proxy)

\* message_handler from `self.messages.0.send(message_mapper(message)).await` on
message_send(message, proxy, messages, gone) ==
    IF gone THEN Polled(TRUE, FALSE, Receiving, proxy, messages)
    ELSE IF is_full(messages, messages_capacity)
         THEN Polled(FALSE, TRUE, Sending(message), proxy, messages)
         ELSE Polled(TRUE, TRUE, Receiving, proxy, Append(messages, message_mapper(message)))

\* One poll of message_handler.
poll_message_handler(fut, proxy, messages, gone) ==
    IF fut.pc = "send" THEN message_send(fut.item[1], proxy, messages, gone)
    ELSE IF proxy = <<>>
         THEN Polled(FALSE, TRUE, fut, proxy, messages)
         ELSE message_send(Head(proxy), Tail(proxy), messages, gone)

\* `command_handler.race(message_handler).await`: where the loop goes when a future
\* is Ready.
AfterRace(r) == IF r.ok THEN "top" ELSE "err"

PxInit ==
    /\ http_commands = <<>>
    /\ http_messages = <<>>
    /\ command_proxy = <<>>
    /\ message_proxy = <<>>
    /\ command_handler = Receiving
    /\ message_handler = Receiving
    /\ http_pc = "top"
    /\ http_gone = FALSE
    /\ made_commands = <<>>
    /\ made_messages = <<>>

PxParked == PxInit

\* The effect runtime publishes a Command to the manager.
RuntimeSendsCommand(c) ==
    /\ ~http_gone
    /\ Len(made_commands) < MaxProxyCommands
    /\ http_commands' = Append(http_commands, c)
    /\ made_commands' = Append(made_commands, c)
    /\ UNCHANGED <<http_messages, command_proxy, message_proxy, command_handler,
                   message_handler, http_pc, http_gone, made_messages>>

\* The server runtime produces a Message.
ServerSendsMessage ==
    /\ Len(made_messages) < MaxProxyMessages
    /\ message_proxy' = Append(message_proxy, Len(made_messages) + 1)
    /\ made_messages' = Append(made_messages, Len(made_messages) + 1)
    /\ UNCHANGED <<http_commands, http_messages, command_proxy, command_handler,
                   message_handler, http_pc, http_gone, made_commands>>

\* The effect runtime ends and drops its ends of self.commands and self.messages.
EffectRuntimeGone ==
    /\ ~http_gone
    /\ http_gone' = TRUE
    /\ UNCHANGED <<http_commands, http_messages, command_proxy, message_proxy,
                   command_handler, message_handler, http_pc, made_commands,
                   made_messages>>

\* The top of the loop: `any_closed` returns Ok(()); otherwise the two futures of the
\* round are made.
HttpLoopTop ==
    /\ http_pc = "top"
    /\ http_pc' = IF http_gone THEN "ok" ELSE "race"
    /\ command_handler' = Receiving
    /\ message_handler' = Receiving
    /\ UNCHANGED <<http_commands, http_messages, command_proxy, message_proxy,
                   http_gone, made_commands, made_messages>>

\* The race polls command_handler. Ready ends the round and drops message_handler.
PollCommandHandler ==
    /\ http_pc = "race"
    /\ LET r == poll_command_handler(command_handler, http_commands, command_proxy,
                                     http_gone) IN
          /\ r.ready \/ r.fut # command_handler
          /\ http_commands' = r.from
          /\ command_proxy' = r.to
          /\ command_handler' = r.fut
          /\ message_handler' = IF r.ready THEN Receiving ELSE message_handler
          /\ http_pc' = IF r.ready THEN AfterRace(r) ELSE http_pc
    /\ UNCHANGED <<http_messages, message_proxy, http_gone, made_commands,
                   made_messages>>

\* The race polls message_handler. Ready ends the round and drops command_handler.
PollMessageHandler ==
    /\ http_pc = "race"
    /\ LET r == poll_message_handler(message_handler, message_proxy, http_messages,
                                     http_gone) IN
          /\ r.ready \/ r.fut # message_handler
          /\ message_proxy' = r.from
          /\ http_messages' = r.to
          /\ message_handler' = r.fut
          /\ command_handler' = IF r.ready THEN Receiving ELSE command_handler
          /\ http_pc' = IF r.ready THEN AfterRace(r) ELSE http_pc
    /\ UNCHANGED <<http_commands, command_proxy, http_gone, made_commands,
                   made_messages>>

\* ================================================================ Application
NoPing == -1
NoBroadcast == -1

\* SerialConnectionState
Disconnected == [kind |-> "Disconnected", ping |-> NoPing, file |-> <<>>]
Idle(last_ping) == [kind |-> "Idle", ping |-> last_ping, file |-> <<>>]
PendingAttempt == [kind |-> "PendingAttempt", ping |-> NoPing, file |-> <<>>]
SendingFile(contents) == [kind |-> "SendingFile", ping |-> NoPing, file |-> contents]

\* SerialConnectionState::available / DerivedSerialState::available
available(serial) == serial.connection.kind = "Idle"

\* A slot of the connected_clients map: absent, or a DerivedClientState.
NoClient == [present |-> FALSE, tick |-> 0, history |-> <<>>, serial_available |-> FALSE,
             last_config |-> NoConfig]

\* Application::default()
DefaultApplication ==
    [last_broadcast |-> NoBroadcast,
     connected_clients |-> [id \in ClientIds |-> NoClient],
     serial |-> [connection |-> Disconnected, last_config |-> NoConfig]]

\* serde_json::to_string of ResponseKinds::Response(ClientResponse) and of
\* ResponseKinds::State(client): the fields of the document.
Response(tick, status) ==
    [kind |-> "response", tick |-> tick, status |-> status, history |-> <<>>,
     serial_available |-> FALSE, last_config |-> NoConfig]

State(client) ==
    [kind |-> "state", tick |-> client.tick, status |-> "", history |-> client.history,
     serial_available |-> client.serial_available, last_config |-> client.last_config]

\* Command::Serial(SerialCommand) and Command::Http(Command::SendState(id, payload))
Serial(op, arg) ==
    [kind |-> "serial", op |-> op, arg |-> arg, id |-> "", data |-> Response(0, ""),
     n |-> 0]

SendState(id, payload) ==
    [kind |-> "http", op |-> "SendState", arg |-> "", id |-> id, data |-> payload,
     n |-> 0]

\* The text frames clients send. A ClientMessage document has a `tick` and a `request`
\* object tagged by `kind`; "flat" is a document that carries `kind` and `value` next to
\* `tick` instead, "garbage" is not a document at all.
RequestTick == 5

ClientTexts ==
    {[shape |-> "nested", tick |-> RequestTick, kind |-> "raw_serial", value |-> "G0 X1"],
     [shape |-> "nested", tick |-> RequestTick, kind |-> "configuration", value |-> "devA"],
     [shape |-> "nested", tick |-> RequestTick, kind |-> "close_serial", value |-> ""],
     [shape |-> "nested", tick |-> RequestTick, kind |-> "retry_serial", value |-> ""],
     [shape |-> "flat", tick |-> RequestTick, kind |-> "raw_serial", value |-> "G0 X1"],
     [shape |-> "garbage", tick |-> 0, kind |-> "", value |-> ""]}

\* serde_json::from_str::<ClientMessage>
from_str(data) ==
    IF data.shape = "nested"
    THEN [ok |-> TRUE, tick |-> data.tick,
          request |-> [kind |-> data.kind, value |-> data.value]]
    ELSE [ok |-> FALSE, tick |-> 0, request |-> [kind |-> "", value |-> ""]]

\* The orders in which a HashMap of the clients may be iterated.
Orders == {o \in [1..Cardinality(ClientIds) -> ClientIds] : Range(o) = ClientIds}

\* The keys of connected_clients, in the iteration order.
Iter(app, order) ==
    SelectSeq(order, LAMBDA id : app.connected_clients[id].present)

\* Application::add_statuses: serial_available is refreshed on every client and a state
\* payload is pushed for each.
add_statuses(app, order) ==
    LET refreshed ==
            [id \in ClientIds |->
                IF app.connected_clients[id].present
                THEN [app.connected_clients[id] EXCEPT
                        !.serial_available = available(app.serial)]
                ELSE app.connected_clients[id]]
        it == Iter(app, order)
    IN [app |-> [app EXCEPT !.connected_clients = refreshed],
        cmds |-> [i \in 1..Len(it) |-> SendState(it[i], State(refreshed[it[i]]))]]

\* Application::init
init(app, flags) ==
    IF flags # NoConfig
    THEN [app |-> [app EXCEPT !.serial = [connection |-> Disconnected,
                                          last_config |-> flags]],
          cmds |-> <<Serial("Configure", flags)>>]
    ELSE [app |-> app, cmds |-> <<>>]

\* Mutant: a raw_serial request pushes no Serial command.
request_cmds_no_raw(request) ==
    CASE request.kind = "configuration" -> <<Serial("Configure", request.value)>>
      [] request.kind = "retry_serial" -> <<Serial("Control", "true")>>
      [] request.kind = "close_serial" -> <<Serial("Control", "false")>>
      [] OTHER -> <<>>

\* update, ClientData: the Serial command the match on parsed.request pushes.
request_cmds(request) ==
    CASE request.kind = "configuration" -> <<Serial("Configure", request.value)>>
      [] request.kind = "retry_serial" -> <<Serial("Control", "true")>>
      [] request.kind = "close_serial" -> <<Serial("Control", "false")>>
      [] request.kind = "raw_serial" -> <<Serial("Raw", request.value)>>
      [] OTHER -> <<>>

\* ClientHistoryEntry::SentCommand(parsed) and ClientHistoryEntry::ReceivedData(entry)
SentCommand(parsed) ==
    [history_kind |-> "sent_command", tick |-> parsed.tick,
     content |-> parsed.request.value]

ReceivedData(content) ==
    [history_kind |-> "received_data", tick |-> 0, content |-> content]

\* Mutant: the new connection state is recorded and no client is told.
update_serial_edge_silent(app, message, order) ==
    [app |-> [app EXCEPT !.serial.connection =
                 IF message.kind = "ConnectedSerial" THEN Idle(NoPing) ELSE Disconnected],
     cmds |-> <<>>]

\* update, Message::DisconnectedSerial | Message::ConnectedSerial
update_serial_edge(app, message, order) ==
    LET next == [app EXCEPT !.serial.connection =
                    IF message.kind = "ConnectedSerial" THEN Idle(NoPing)
                    ELSE Disconnected]
    IN IF Iter(next, order) = <<>> THEN [app |-> next, cmds |-> <<>>]
       ELSE add_statuses(next, order)

\* Mutant: an upload is taken in every connection state.
update_file_upload_in_any_state(app, message) ==
    [app |-> [app EXCEPT !.serial.connection = SendingFile(message.data)], cmds |-> <<>>]

\* update, Message::Http(FileUpload(file_contents))
update_file_upload(app, message) ==
    IF ~available(app.serial) THEN [app |-> app, cmds |-> <<>>]
    ELSE [app |-> [app EXCEPT !.serial.connection = SendingFile(message.data)],
          cmds |-> <<>>]

\* Mutant: a disconnected client stays in the map.
update_client_disconnected_keeps(app, message) == [app |-> app, cmds |-> <<>>]

\* Mutant: a client's disconnect is taken for the device's.
update_client_disconnected_drops_serial(app, message) ==
    [app |-> [app EXCEPT !.connected_clients[message.id] = NoClient,
                         !.serial.connection = Disconnected],
     cmds |-> <<>>]

\* update, Message::Http(ClientDisconnected(id))
update_client_disconnected(app, message) ==
    [app |-> [app EXCEPT !.connected_clients[message.id] = NoClient], cmds |-> <<>>]

\* update, Message::Http(ClientConnected(id))
update_client_connected(app, message) ==
    [app |-> [app EXCEPT !.connected_clients[message.id] =
                 [present |-> TRUE, tick |-> 0, history |-> <<>>,
                  serial_available |-> available(app.serial),
                  last_config |-> app.serial.last_config]],
     cmds |-> <<>>]

\* Mutant: a configuration request records the configuration and leaves the connection
\* state as it is.
configured_keeps_state(app, value) ==
    [app EXCEPT !.serial.last_config = value]

\* update, ClientData, ClientMessageRequest::Configuration: last_config and connection
\* of the serial state are assigned.
configured(app, value) ==
    [app EXCEPT !.serial = [connection |-> PendingAttempt, last_config |-> value]]

\* Mutant: a payload that does not parse still sets the client's tick.
parse_failure_sets_tick(app, id) ==
    [app |-> [app EXCEPT !.connected_clients[id].tick = RequestTick],
     cmds |-> <<SendState(id, Response(0, "failed"))>>]

\* update, ClientData, `Err(error)` of from_str: the failed response is returned at once.
parse_failure(app, id) ==
    [app |-> app, cmds |-> <<SendState(id, Response(0, "failed"))>>]

\* update, Message::Http(ClientData(id, data))
update_client_data(app, message, order) ==
    LET id == message.id
        parsed == from_str(message.data)
        is_config == parsed.request.kind = "configuration"
        is_raw == parsed.request.kind = "raw_serial"
        \* connected_client.tick = new_tick, and the history push of a raw request
        a1 == [app EXCEPT !.connected_clients[id].tick = parsed.tick,
                          !.connected_clients[id].history =
                              IF is_raw THEN Append(@, SentCommand(parsed)) ELSE @]
        \* a configuration request
        a2 == IF is_config THEN configured(a1, parsed.request.value) ELSE a1
        \* `if update_configs`
        a3 == IF is_config
              THEN [a2 EXCEPT !.connected_clients =
                       [c \in ClientIds |->
                           IF @[c].present
                           THEN [@[c] EXCEPT !.last_config = a2.serial.last_config]
                           ELSE @[c]]]
              ELSE a2
        st == add_statuses(a3, order)
    IN IF ~app.connected_clients[id].present THEN [app |-> app, cmds |-> <<>>]
       ELSE IF ~parsed.ok THEN parse_failure(app, id)
       ELSE [app |-> st.app,
             cmds |-> request_cmds(parsed.request)
                         \o <<SendState(id, Response(parsed.tick, "ok"))>>
                         \o st.cmds]

\* update, Message::Serial(data)
update_serial_data(app, message, order) ==
    LET pushed == [id \in ClientIds |->
                      IF app.connected_clients[id].present
                      THEN [app.connected_clients[id] EXCEPT
                              !.history = Append(@, ReceivedData(message.data))]
                      ELSE app.connected_clients[id]]
        it == Iter(app, order)
    IN IF it = <<>> THEN [app |-> app, cmds |-> <<>>]
       ELSE [app |-> [app EXCEPT !.connected_clients = pushed],
             cmds |-> [i \in 1..Len(it) |-> SendState(it[i], State(pushed[it[i]]))]]

\* update, Message::Broadcast
update_broadcast(app, t, order) ==
    IF app.last_broadcast = NoBroadcast
    THEN [app |-> [app EXCEPT !.last_broadcast = t], cmds |-> <<>>]
    ELSE IF t - app.last_broadcast < 2 THEN [app |-> app, cmds |-> <<>>]
    ELSE LET next == [app EXCEPT !.last_broadcast = t] IN
         IF Iter(next, order) = <<>> THEN [app |-> next, cmds |-> <<>>]
         ELSE add_statuses(next, order)

\* The line ending of an uploaded text. A text is a sequence of line endings and of
\* the pieces between them; a piece has no line ending inside.
LineEnd == "\n"

\* str::lines: the pieces between the line endings; the last line ending is optional.
RECURSIVE lines(_)
lines(text) ==
    IF text = <<>> THEN <<>>
    ELSE IF Head(text) = LineEnd THEN <<"">> \o lines(Tail(text))
    ELSE IF Len(text) = 1 THEN <<Head(text)>>
    ELSE <<Head(text)>> \o lines(SubSeq(text, 3, Len(text)))

\* lines.map(|l| format!("{l}\n")).collect::<String>()
RECURSIVE collect(_)
collect(ls) ==
    IF ls = <<>> THEN <<>>
    ELSE (IF Head(ls) = "" THEN <<LineEnd>> ELSE <<Head(ls), LineEnd>>)
            \o collect(Tail(ls))

\* Mutant: the line after the one sent is dropped with it.
remainder_skipping(ls) == IF Len(ls) >= 2 THEN collect(Tail(Tail(ls))) ELSE <<>>

\* update, Message::Tick: what is left of the contents once lines.next() has taken
\* the first line.
remainder(ls) == collect(Tail(ls))

\* Mutant: an Idle connection is pinged on every Tick, whatever the age of the last ping.
update_tick_always_pings(app, t) ==
    LET c0 == app.serial.connection
        sending == c0.kind = "SendingFile"
        ls == IF sending THEN lines(c0.file) ELSE <<>>
        c1 == IF ~sending THEN c0
              ELSE IF ls # <<>> THEN SendingFile(remainder(ls))
              ELSE Idle(NoPing)
        cmds1 == IF sending /\ ls # <<>> THEN <<Serial("Raw", Head(ls))>>
                 ELSE <<>>
        is_old == c1.kind = "Idle"
        c2 == IF is_old THEN Idle(t) ELSE c1
        cmds2 == IF is_old THEN <<Serial("Status", "")>> ELSE <<>>
    IN [app |-> [app EXCEPT !.serial.connection = c2], cmds |-> cmds1 \o cmds2]

\* update, Message::Tick
update_tick(app, t) ==
    LET c0 == app.serial.connection
        sending == c0.kind = "SendingFile"
        \* `if let SendingFile(contents)`: the next line of the file, if any
        ls == IF sending THEN lines(c0.file) ELSE <<>>
        c1 == IF ~sending THEN c0
              ELSE IF ls # <<>> THEN SendingFile(remainder(ls))
              ELSE Idle(NoPing)
        cmds1 == IF sending /\ ls # <<>> THEN <<Serial("Raw", Head(ls))>>
                 ELSE <<>>
        \* `if let Idle(last_ping)`
        is_old == c1.kind = "Idle" /\ (c1.ping = NoPing \/ t - c1.ping > 3)
        c2 == IF is_old THEN Idle(t) ELSE c1
        cmds2 == IF is_old THEN <<Serial("Status", "")>> ELSE <<>>
    IN [app |-> [app EXCEPT !.serial.connection = c2], cmds |-> cmds1 \o cmds2]

\* Application::update
update(app, message, t, order) ==
    CASE message.kind \in {"ConnectedSerial", "DisconnectedSerial"} ->
            update_serial_edge(app, message, order)
      [] message.kind = "FileUpload" -> update_file_upload(app, message)
      [] message.kind = "ClientDisconnected" -> update_client_disconnected(app, message)
      [] message.kind = "ClientData" -> update_client_data(app, message, order)
      [] message.kind = "ClientConnected" -> update_client_connected(app, message)
      [] message.kind = "Serial" -> update_serial_data(app, message, order)
      [] message.kind = "Broadcast" -> update_broadcast(app, t, order)
      [] message.kind = "Tick" -> update_tick(app, t)

\* Mutant: the tickers' filter accepts every Command.
TickFilterAcceptsAll == CmdKinds

\* The managers of run, in the order they are registered, with their filters.
TickFilter == {}
SerialFilter == {"serial"}
HttpFilter == {"http"}

AppManagers == {"serial_ticks", "broadcast_ticks", "serial_effects", "http_effects"}

AppChannels ==
    <<[mgr |-> "serial_ticks", filter |-> TickFilter],
      [mgr |-> "broadcast_ticks", filter |-> TickFilter],
      [mgr |-> "serial_effects", filter |-> SerialFilter],
      [mgr |-> "http_effects", filter |-> HttpFilter]>>

\* The Commands of a list, numbered in the order the Application emitted them.
Numbered(cmds) == [i \in 1..Len(cmds) |-> [cmds[i] EXCEPT !.n = emitted + i]]

\* The Messages that do not come from a websocket: those of the two tickers, of the
\* serial manager and of the upload route.
EnvKinds == {"Tick", "Broadcast", "Serial", "ConnectedSerial", "DisconnectedSerial",
             "FileUpload"}

EnvMessage(kind) ==
    [kind |-> kind, id |-> "",
     data |-> IF kind = "Serial" THEN "ok"
              ELSE IF kind = "FileUpload" THEN <<"G1", LineEnd, "G2">>
              ELSE ""]

\* The serial flags the program may be started with: none, or a device.
Flags == {NoConfig, "devA"}

\* run of app/mod.rs up to the first frame: the four managers are registered and
\* EffectRuntime::init has published the Commands of Application::init(flags).
AppInit ==
    \E flags \in Flags :
        LET i == init(DefaultApplication, flags)
            numbered == [k \in 1..Len(i.cmds) |-> [i.cmds[k] EXCEPT !.n = k]]
            r == publish_cmds([m \in AppManagers |-> <<>>], numbered, <<>>)
        IN
        /\ application = i.app
        /\ now = 0
        /\ detached = [m \in AppManagers |-> TRUE]
        /\ channels = AppChannels
        /\ msgq = [m \in AppManagers |-> <<>>]
        /\ stopped = {}
        /\ emitted = Len(i.cmds)
        /\ cmdq = r.qs
        /\ lastPub = r.log
        /\ applied = <<>>
        /\ rt_pc = "loop"
        /\ rt_result = "none"
        /\ rt_failure = "none"
        /\ reg_last = "ok"
        /\ sent = 0
        /\ frames = 0

AppParked ==
    /\ application = DefaultApplication
    /\ now = 0

\* Time passes.
ClockStep == 2

\* What Instant::now() may return to an update that reads the clock: the time of the
\* last reading, or a later one.
Readings(message) ==
    IF message.kind \in {"Tick", "Broadcast"}
    THEN {now} \cup {t \in {now + ClockStep} : t <= MaxClock * ClockStep}
    ELSE {now}

\* One frame of the runtime on a Message, Instant::now() returning t if the update
\* reads the clock: Application::update and publish_cmds.
FrameAt(message, order, t) ==
    LET u == update(application, message, t, order)
        r == publish_cmds(cmdq, Numbered(u.cmds), <<>>)
    IN /\ application' = u.app
       /\ now' = t
       /\ cmdq' = r.qs
       /\ lastPub' = r.log
       /\ emitted' = emitted + Len(u.cmds)
       /\ frames' = frames + 1
       /\ applied' = Append(applied, message)
       /\ UNCHANGED <<detached, channels, msgq, stopped, rt_pc, rt_result,
                      rt_failure, reg_last, sent>>

\* One frame of the runtime on a Message.
Frame(message, order) == \E t \in Readings(message) : FrameAt(message, order, t)

\* A frame on the next Message of the server runtime, which the message_handler of
\* Http::run passes on to the runtime.
AppFrameHttp(order) ==
    /\ gw_messages # <<>>
    /\ gw_messages' = Tail(gw_messages)
    /\ Frame(Head(gw_messages), order)
    /\ UNCHANGED <<clients, registration, gw_commands, conn, inbox, wire, proxy_alive,
                   gw_cmd_closed, gw_issued, gw_data, gw_late, gw_failed, gwRunVars>>

\* A frame on a Message of a ticker, of the serial manager or of the upload route.
AppFrameEnv(kind, order) ==
    /\ gw_messages = <<>>
    /\ frames < MaxAppFrames
    /\ Frame(EnvMessage(kind), order)
    /\ UNCHANGED gwVars

\* Http::run, command_handler: the next Command on the http manager's channel is mapped
\* by command_mapper and sent on the command proxy channel.
HttpForward ==
    /\ cmdq["http_effects"] # <<>>
    /\ LET c == Head(cmdq["http_effects"]) IN
          gw_commands' = Append(gw_commands, [id |-> c.id, data |-> c.data])
    /\ cmdq' = [cmdq EXCEPT !["http_effects"] = Tail(@)]
    /\ UNCHANGED <<clients, registration, gw_messages, conn, inbox, wire, proxy_alive,
                   gw_cmd_closed, gw_issued, gw_data, gw_late, gw_failed, gwRunVars>>
    /\ UNCHANGED <<detached, channels, msgq, stopped, applied, lastPub, rt_pc,
                   rt_result, rt_failure, reg_last, sent, emitted, frames>>
    /\ UNCHANGED appVars

\* ---- the Application and the serial manager
\* SerialMap::translate
translate(c) ==
    IF c.kind # "serial" THEN [k |-> "unmapped", v |-> "http"]
    ELSE CASE c.op = "Control" -> [k |-> "control", v |-> (c.arg = "true")]
           [] c.op = "Configure" -> [k |-> "configure", v |-> c.arg]
           [] c.op = "Raw" -> [k |-> "data", v |-> c.arg]
           [] OTHER -> [k |-> "data", v |-> "?"]

\* SerialMap::connected and SerialMap::disconnected
LifecycleMessage(sent_as) ==
    EnvMessage(IF sent_as = "Connected" THEN "ConnectedSerial" ELSE "DisconnectedSerial")

\* The lifecycle Messages among those the Application has applied.
LifecycleApplied ==
    SelectSeq(applied, LAMBDA m : m.kind \in {"ConnectedSerial", "DisconnectedSerial"})

\* The Messages of clients and tickers the Application is given next to those of the
\* serial manager: a client connects, a client asks for a configuration, a Tick.
LinkMessages ==
    {[kind |-> "ClientConnected", id |-> id, data |-> ""] : id \in ClientIds}
        \cup {[kind |-> "ClientData", id |-> id, data |-> text] :
                 id \in ClientIds,
                 text \in {t \in ClientTexts : from_str(t).request.kind = "configuration"}}
        \cup {EnvMessage("Tick")}

\* What a read of the device returns while the device sends nothing.
SilentReads == {rd \in ReadOutcomes : rd.kind # "ok"}

\* A frame on a Message of a client or a ticker.
LinkFrame(message, order) ==
    /\ frames < MaxAppFrames
    /\ Frame(message, order)
    /\ UNCHANGED <<serVars, gwVars>>

\* A frame on the next Connected / Disconnected Message the serial manager has sent.
LinkFrameLifecycle(order) ==
    /\ frames < MaxAppFrames
    /\ Len(LifecycleApplied) < Len(lifecycle)
    /\ Frame(LifecycleMessage(lifecycle[Len(LifecycleApplied) + 1]), order)
    /\ UNCHANGED <<serVars, gwVars>>

\* The next Command the runtime published for the serial manager becomes visible to the
\* try_recv of Serial::run, as translate returns it.
LinkCommand ==
    /\ cmdq["serial_effects"] # <<>>
    /\ SerEnqueue(translate(Head(cmdq["serial_effects"])))
    /\ cmdq' = [cmdq EXCEPT !["serial_effects"] = Tail(@)]
    /\ UNCHANGED <<detached, channels, msgq, stopped, applied, lastPub, rt_pc,
                   rt_result, rt_failure, reg_last, sent, emitted, frames>>
    /\ UNCHANGED <<appVars, gwVars>>

\* ================================================================ specifications
RtOnly == UNCHANGED <<parVars, serVars, gwVars, appVars, pxVars>>
ParOnly == UNCHANGED <<rtVars, serVars, gwVars, appVars, pxVars>>
SerOnly == UNCHANGED <<rtVars, parVars, gwVars, appVars, pxVars>>
GwOnly == UNCHANGED <<rtVars, parVars, serVars, appVars, pxVars>>

InitRuntime == RtInit /\ ParParked /\ SerParked /\ GwInit /\ AppParked /\ PxParked

NextRuntime ==
    \/ \E m \in Managers, f \in Filters : Register(m, f) /\ RtOnly
    \/ \E l \in CommandLists : RunInit(l) /\ RtOnly
    \/ \E i \in 1..Len(channels), l \in CommandLists : FrameRecv(i, l) /\ RtOnly
    \/ \E i \in 1..Len(channels) : FrameClosed(i) /\ RtOnly
    \/ FrameTimeout /\ RtOnly
    \/ \E m \in Managers : ManagerSend(m) /\ RtOnly
    \/ \E m \in Managers : ManagerStop(m) /\ RtOnly

SpecRuntime == InitRuntime /\ [][NextRuntime]_vars

InitParser == RtInit /\ ParInit /\ SerParked /\ GwInit /\ AppParked /\ PxParked

NextParser == ParseCall /\ ParOnly

SpecParser == InitParser /\ [][NextParser]_vars

InitGrbl == RtInit /\ ParIdle /\ GrblInit /\ SerParked /\ GwInit /\ AppParked /\ PxParked

NextGrbl == GrblParse /\ ParOnly

SpecGrbl == InitGrbl /\ [][NextGrbl]_vars

InitSerial == RtInit /\ ParParked /\ SerInit /\ GwInit /\ AppParked /\ PxParked

NextSerial ==
    \/ \E open_ok \in BOOLEAN, rd \in ReadOutcomes, write_ok \in BOOLEAN :
          SerialStep(open_ok, rd, write_ok) /\ SerOnly
    \/ BackoffSleep /\ SerOnly
    \/ YieldSleep /\ SerOnly
    \/ \E c \in SerialCommands : SerEnqueue(c) /\ SerOnly
    \/ RuntimeGone /\ SerOnly

SpecSerial == InitSerial /\ [][NextSerial]_vars

InitGateway == RtInit /\ ParParked /\ SerParked /\ GwInit /\ AppParked /\ PxParked

\* ---- the Application without websocket clients
\* The texts the upload route hands over: two lines without a final line ending, and
\* an empty line followed by a terminated one.
Uploads == {<<"G1", LineEnd, "G2">>, <<LineEnd, "G2", LineEnd>>}

\* Message::Http(FileUpload(file_contents)) of the upload route
FileUpload(text) == [kind |-> "FileUpload", id |-> "", data |-> text]

\* The Messages of the tickers, of the serial manager and of the upload route.
UploadMessages ==
    {EnvMessage(kind) : kind \in EnvKinds \ {"FileUpload"}}
        \cup {FileUpload(text) : text \in Uploads}

\* A frame on a Message of a ticker, of the serial manager or of the upload route.
UploadFrame(message, order) ==
    /\ frames < MaxUploadFrames
    /\ Frame(message, order)
    /\ UNCHANGED <<serVars, gwVars>>

\* ---- the Application and the Messages of its managers, without the gateway's tasks
\* Two one-line texts, the second with its line ending.
ConnUploads == {<<"G1">>, <<"G2", LineEnd>>}

\* The confirmations and the lines of the serial manager, the uploads, a client's
\* connecting, its configuration request and its disconnecting, a Tick, a Broadcast.
ConnMessages ==
    LinkMessages
        \cup {EnvMessage("ConnectedSerial"), EnvMessage("DisconnectedSerial"),
              EnvMessage("Serial"), EnvMessage("Broadcast")}
        \cup {[kind |-> "ClientDisconnected", id |-> id, data |-> ""] : id \in ClientIds}
        \cup {FileUpload(text) : text \in ConnUploads}

\* What Instant::now() may return to a Tick or a Broadcast: the time of the last
\* reading, or a later one.
ConnReadings(message) ==
    IF message.kind \in {"Tick", "Broadcast"}
    THEN {now} \cup {t \in {now + ClockStep} : t <= MaxConnClock * ClockStep}
    ELSE {now}

ConnFrame(message, order) ==
    /\ frames < MaxConnFrames
    /\ \E t \in ConnReadings(message) : FrameAt(message, order, t)
    /\ UNCHANGED <<serVars, gwVars>>

NextGateway ==
    \/ \E id \in ClientIds : WsConnect(id) /\ GwOnly
    \/ \E id \in ClientIds : WsClientData(id, "text") /\ GwOnly
    \/ \E id \in ClientIds, send_ok \in BOOLEAN : WsCommand(id, send_ok) /\ GwOnly
    \/ \E id \in ClientIds : WsEnd(id) /\ GwOnly
    \/ ProxyCmd /\ GwOnly
    \/ ProxyRec /\ GwOnly
    \/ ProxyClosed /\ GwOnly
    \/ \E id \in ClientIds : HttpCommand(id) /\ GwOnly
    \/ HttpMessage /\ GwOnly
    \/ \E seen_at_top \in BOOLEAN : HttpStops(seen_at_top) /\ GwOnly
    \/ GwRuntimeGone /\ GwOnly

SpecGateway == InitGateway /\ [][NextGateway]_vars

AppOnly == UNCHANGED <<parVars, serVars, pxVars>>
GwInApp == UNCHANGED <<rtVars, appVars, parVars, serVars, pxVars>>

\* A connection task produces its next Message once the Application has been given the
\* Messages produced before, and only while the run has frames left for it.
WsMayProduce == gw_messages = <<>> /\ frames < MaxAppFrames

InitApp == AppInit /\ ParParked /\ SerParked /\ GwInit /\ PxParked

NextApp ==
    \/ \E order \in Orders : AppFrameHttp(order) /\ AppOnly
    \/ \E kind \in EnvKinds, order \in Orders : AppFrameEnv(kind, order) /\ AppOnly
    \/ HttpForward /\ AppOnly
    \/ \E id \in ClientIds : WsMayProduce /\ WsConnect(id) /\ GwInApp
    \/ \E id \in ClientIds, data \in ClientTexts :
          WsMayProduce /\ WsClientData(id, data) /\ GwInApp
    \/ \E id \in ClientIds, send_ok \in BOOLEAN :
          (send_ok \/ WsMayProduce) /\ WsCommand(id, send_ok) /\ GwInApp
    \/ \E id \in ClientIds : WsMayProduce /\ WsEnd(id) /\ GwInApp
    \/ ProxyCmd /\ GwInApp
    \/ ProxyRec /\ GwInApp

SpecApp == InitApp /\ [][NextApp]_vars

LinkOnly == UNCHANGED <<parVars, pxVars>>
SerInLink == UNCHANGED <<rtVars, appVars, gwVars, parVars, pxVars>>

InitLink == AppInit /\ ParParked /\ SerParked /\ GwInit /\ PxParked

NextLink ==
    \/ \E message \in LinkMessages, order \in Orders : LinkFrame(message, order) /\ LinkOnly
    \/ \E order \in Orders : LinkFrameLifecycle(order) /\ LinkOnly
    \/ LinkCommand /\ LinkOnly
    \/ \E open_ok \in BOOLEAN, rd \in SilentReads, write_ok \in BOOLEAN :
          SerialStep(open_ok, rd, write_ok) /\ SerInLink
    \/ BackoffSleep /\ SerInLink
    \/ YieldSleep /\ SerInLink

SpecLink == InitLink /\ [][NextLink]_vars

InitUpload == AppInit /\ ParParked /\ SerParked /\ GwInit /\ PxParked

NextUpload ==
    \E message \in UploadMessages, order \in Orders :
        UploadFrame(message, order) /\ LinkOnly

SpecUpload == InitUpload /\ [][NextUpload]_vars

InitConn == AppInit /\ ParParked /\ SerParked /\ GwInit /\ PxParked

NextConn ==
    \E message \in ConnMessages, order \in Orders :
        ConnFrame(message, order) /\ LinkOnly

SpecConn == InitConn /\ [][NextConn]_vars

\* ---- the loop of Http::run between the effect runtime and the server runtime
PxOnly == UNCHANGED <<rtVars, parVars, serVars, gwVars, appVars>>

InitProxy == RtInit /\ ParParked /\ SerParked /\ GwInit /\ AppParked /\ PxInit

NextProxy ==
    \/ \E c \in {HttpCmd(Len(made_commands) + 1), OtherCmd(Len(made_commands) + 1)} :
          RuntimeSendsCommand(c) /\ PxOnly
    \/ ServerSendsMessage /\ PxOnly
    \/ EffectRuntimeGone /\ PxOnly
    \/ HttpLoopTop /\ PxOnly
    \/ PollCommandHandler /\ PxOnly
    \/ PollMessageHandler /\ PxOnly

SpecProxy == InitProxy /\ [][NextProxy]_vars

\* ================================================================ claims: EffectRuntime

\* The places (manager, position) of the Command numbered n on the Command channels.
PlacesOf(n) ==
    {p \in Managers \X (1..emitted) :
        /\ p[2] <= Len(cmdq[p[1]])
        /\ cmdq[p[1]][p[2]].n = n}

\* C1: every Command the Application has returned sits on the Command channel of at most
\* one manager, and there at most once, whatever the registered filters are.
Thm_C1_RoutingExclusive ==
    \A n \in 1..emitted : Cardinality(PlacesOf(n)) <= 1

\* C1 witness: a Command that the filters of two registered managers accept has been
\* published and sits on exactly one Command channel.
Wit_C1_TwoAcceptOneGets ==
    \E i \in 1..Len(lastPub) :
        /\ Cardinality(Accepting(lastPub[i].cmd)) >= 2
        /\ Cardinality(PlacesOf(lastPub[i].cmd.n)) = 1

\* C2: a published Command is placed on no channel other than that of the earliest
\* registered manager whose filter accepts it; it is placed nowhere only when no filter
\* accepts it or when the send to that earliest manager failed, which ends the runtime.
Thm_C2_FirstRegisteredWins ==
    \A i \in 1..Len(lastPub) :
        LET e == lastPub[i]
            acc == Accepting(e.cmd)
        IN IF acc = {} THEN e.to = {}
           ELSE \/ /\ e.to = {Min(acc)}
                   /\ \E k \in 1..Len(cmdq[channels[Min(acc)].mgr]) :
                         cmdq[channels[Min(acc)].mgr][k] = e.cmd
                \/ /\ e.to = {}
                   /\ i = Len(lastPub)
                   /\ rt_failure = "closed-sink"
                   /\ channels[Min(acc)].mgr \in stopped

\* C2 witness: both registered managers accept a Command, and it went to the first one.
Wit_C2_EarlierOfTwo ==
    /\ Len(channels) = 2
    /\ \E i \in 1..Len(lastPub) :
          /\ Accepting(lastPub[i].cmd) = {1, 2}
          /\ lastPub[i].to = {1}
          /\ lastPub[i].cmd \in Range(cmdq[channels[1].mgr])
          /\ lastPub[i].cmd \notin Range(cmdq[channels[2].mgr])

\* C3 (as claimed): once the runtime has met a closed Message channel or a failed send on
\* a Command channel, its loop has stopped and run has returned an error.
Claim_C3_FatalReturnsError ==
    rt_failure # "none" => (rt_pc = "done" /\ rt_result = "err")

\* C12: the runtime's manager list grows only by a register call on a manager that had
\* not been detached, which detaches it; a manager once detached stays detached, and a
\* register call that returns the error leaves the list and the managers as they were.
Thm_C12_DetachOnce ==
    [][/\ \A m \in Managers : detached[m] => detached'[m]
       /\ channels' # channels =>
             \E m \in Managers :
                /\ ~detached[m] /\ detached'[m]
                /\ Len(channels') = Len(channels) + 1
                /\ SubSeq(channels', 1, Len(channels)) = channels
                /\ channels'[Len(channels')].mgr = m
       /\ (reg_last' = "err" /\ reg_last # "err") =>
             (channels' = channels /\ detached' = detached)]_vars

\* C12 witness: one manager is registered, and a second register call (necessarily on
\* that manager) has returned the error.
Wit_C12_SecondRegisterFailed ==
    /\ reg_last = "err"
    /\ Len(channels) = 1
    /\ Cardinality({m \in Managers : detached[m]}) = 1

\* C16: for every manager, the Messages applied from it followed by those still on its
\* channel are its Messages in the order it sent them, none missing.
Thm_C16_PerManagerFifo ==
    /\ \A m \in Managers :
          LET all == MessagesOf(m, applied) \o msgq[m] IN
          \A i \in 1..Len(all) : all[i].n = i
    /\ Len(applied) + Len(msgq["m1"]) + Len(msgq["m2"]) = sent

\* C16 witness: the first two Messages of one manager were applied in the order sent
\* while a Message of the other manager waits on its channel.
Wit_C16_InterleavedStillOrdered ==
    \E m \in Managers :
        /\ MessagesOf(m, applied) = <<[from |-> m, n |-> 1], [from |-> m, n |-> 2]>>
        /\ \E o \in Managers \ {m} : msgq[o] # <<>>

\* C17: on every manager's Command channel the Commands lie in the order the Application
\* emitted them.
Thm_C17_CommandOrder ==
    \A m \in Managers : \A i \in 1..Len(cmdq[m]) - 1 : cmdq[m][i].n < cmdq[m][i + 1].n

\* C17 witness: a manager's channel holds a Command of an earlier update followed by
\* the only Command of the latest update.
Wit_C17_AcrossUpdates ==
    \E m \in Managers :
        /\ Len(cmdq[m]) = 2
        /\ Len(lastPub) = 1
        /\ lastPub[1].cmd = cmdq[m][2]

\* C18: a published Command that no filter accepts is placed on no channel and does not
\* stop the publishing: it is followed by the next Command of its list unless it was the
\* last one; and when no send of the list failed the runtime is still in its loop.
Thm_C18_UnroutedDropped ==
    /\ \A i \in 1..Len(lastPub) :
          Accepting(lastPub[i].cmd) = {} =>
             /\ lastPub[i].to = {}
             /\ PlacesOf(lastPub[i].cmd.n) = {}
             /\ (i = Len(lastPub) => lastPub[i].cmd.n = emitted)
    /\ (/\ lastPub # <<>>
        /\ \A i \in 1..Len(lastPub) :
              \/ Accepting(lastPub[i].cmd) = {}
              \/ channels[Min(Accepting(lastPub[i].cmd))].mgr \notin stopped)
          => (rt_pc = "loop" /\ rt_result = "none" /\ rt_failure = "none")

\* C18 witness: the first Command of a list was accepted by nobody, the second one was
\* routed, and the runtime is in its loop.
Wit_C18_NextCommandRouted ==
    /\ Len(lastPub) = 2
    /\ Accepting(lastPub[1].cmd) = {}
    /\ lastPub[2].to # {}
    /\ PlacesOf(lastPub[2].cmd.n) # {}
    /\ rt_pc = "loop"

\* C19: Messages are applied only in the loop, which is entered once and never left for
\* the start again; and the step that enters it has put every Command of
\* Application::init that some filter accepts on the channel of its manager.
Thm_C19_InitBeforeUpdates ==
    [][/\ applied' # applied => rt_pc = "loop"
       /\ rt_pc # "new" => rt_pc' # "new"
       /\ (rt_pc = "new" /\ rt_pc' = "loop") =>
             /\ applied = <<>>
             /\ \A n \in (emitted + 1)..emitted' :
                   \E i \in 1..Len(lastPub') :
                      /\ lastPub'[i].cmd.n = n
                      /\ Accepting(lastPub'[i].cmd) # {} =>
                            lastPub'[i].cmd \in
                               Range(cmdq'[channels[Min(Accepting(lastPub'[i].cmd))].mgr])
      ]_vars

\* C19 witness: one Message has been applied, its update returned no Command, and a
\* Command (of init) lies on a manager's channel.
Wit_C19_InitCommandQueuedFirst ==
    /\ Len(applied) = 1
    /\ frames = 1
    /\ emitted >= 1
    /\ lastPub = <<>>
    /\ \E m \in Managers : cmdq[m] # <<>> /\ cmdq[m][1].n = 1

\* ================================================================ claims: Serial::run

\* C4: Connected is sent only by an iteration that started not connected and whose open
\* succeeded, and two Connected Messages are never adjacent in the manager's output: a
\* Disconnected separates them.
Thm_C4_ConnectedEdgeTriggered ==
    /\ \A i \in 1..Len(lifecycle) - 1 :
          ~(lifecycle[i] = "Connected" /\ lifecycle[i + 1] = "Connected")
    /\ "Connected" \in Range(last.emit) => (~last.was_connected /\ last.open = "ok")

\* C4 witness: connected, disconnected and connected again.
Wit_C4_Reconnected ==
    /\ lifecycle = <<"Connected", "Disconnected", "Connected">>
    /\ port # NoPort

\* C5: Disconnected is never the first lifecycle Message, two Disconnected are never
\* adjacent, it is sent only by an iteration that started connected, and an iteration
\* that started connected and has no handle after reconciliation sends it (unless the
\* runtime has dropped the Message channel, which terminates run).
Thm_C5_DisconnectedEdgeTriggered ==
    /\ lifecycle # <<>> => lifecycle[1] = "Connected"
    /\ \A i \in 1..Len(lifecycle) - 1 :
          ~(lifecycle[i] = "Disconnected" /\ lifecycle[i + 1] = "Disconnected")
    /\ "Disconnected" \in Range(last.emit) => last.was_connected
    /\ (last.path = "disconnected" /\ last.was_connected) =>
          /\ last.emit = <<"Disconnected">>
          /\ lifecycle[Len(lifecycle)] = "Disconnected"
          /\ ~is_connected

\* C5 witness: Control(false) took the handle of a connected manager, and the same
\* iteration sent Disconnected.
Wit_C5_DisconnectedAfterControlFalse ==
    /\ manual_disconnect
    /\ last.was_connected
    /\ last.path = "disconnected"
    /\ last.emit = <<"Disconnected">>
    /\ lifecycle = <<"Connected", "Disconnected">>

\* C6 (as claimed): after a failed read or write no read or write succeeds before the
\* Disconnected Message has been sent.
Claim_C6_FaultReportedBeforeIo == ~io_after_fault

\* C7: while an open attempt has failed and the backoff sleep has not completed, no
\* step makes another open attempt.
Thm_C7_BackoffBeforeRetry == [][need_backoff => opens' = opens]_vars

\* C7 witness: the first open attempt failed, and after the backoff a second attempt
\* was made (and succeeded).
Wit_C7_RetriedAfterBackoff ==
    /\ opens = 2
    /\ last.open = "ok"
    /\ ~last.was_connected
    /\ lifecycle = <<"Connected">>
    /\ ~need_backoff

\* C13: a step that ends with the latch set makes no open attempt and leaves no handle,
\* and the latch is released only by an iteration that drains Control(true).
Thm_C13_LatchBlocksOpen ==
    [][/\ manual_disconnect' => (opens' = opens /\ port' = NoPort)
       /\ (manual_disconnect /\ ~manual_disconnect') =>
             /\ ser_commands # <<>>
             /\ Head(ser_commands) = [k |-> "control", v |-> TRUE]]_vars

\* C13 witness: connected, then Control(false), then a further iteration that began
\* latched with a configuration stored, and still only the one open attempt was made.
Wit_C13_LatchedIterationNoOpen ==
    /\ manual_disconnect
    /\ config # NoConfig
    /\ lifecycle = <<"Connected", "Disconnected">>
    /\ opens = 1
    /\ last.path = "disconnected"
    /\ ~last.was_connected
    /\ last.open = "none"

\* C14: run has returned only if the runtime has dropped the manager's channels, and it
\* then returned an error; an iteration whose open, read or write failed and that met
\* no closed channel leaves run running.
Thm_C14_OnlyClosedChannelsFatal ==
    /\ ser_pc = "done" => (rt_gone /\ ser_result = "err" /\ last.path = "terminated")
    /\ ser_pc # "done" => ser_result = "none"
    /\ ~rt_gone => ser_pc # "done"

\* C14 witness: an open attempt failed, a later one succeeded, the read failed, and run
\* is in its backoff sleep.
Wit_C14_SurvivedOpenAndReadFailure ==
    /\ opens = 2
    /\ last.open = "ok"
    /\ last.read = "error"
    /\ ser_pc = "backoff"
    /\ ser_result = "none"

\* C26: the payload an iteration writes is that of the Data command it drained itself,
\* and only an iteration that holds a handle after reconciliation and whose read did not
\* fail writes; an iteration on the disconnected path removes the command it drained
\* from the channel and writes nothing, and no step outside an iteration writes. So a
\* Data command drained without a handle is written neither then nor later, and none is
\* written twice.
Thm_C26_NoQueueAcrossDisconnect ==
    [][ /\ iters' = iters + 1 =>
              /\ last'.drained =
                    IF ser_commands # <<>> /\ Head(ser_commands).k = "data"
                    THEN Format(Head(ser_commands).v) ELSE <<>>
              /\ ser_commands # <<>> => ser_commands' = Tail(ser_commands)
              /\ last'.written \in {<<>>, last'.drained}
              /\ last'.path # "connected" => last'.written = <<>>
              /\ last'.path = "disconnected" => port' = NoPort
              /\ last'.written # <<>> => last'.write = "ok"
        /\ iters' = iters => last' = last
      ]_vars

\* C26 witness: the manager had been connected, lost its handle, and the iteration that
\* reported Disconnected drained a Data command, wrote nothing and left the channel
\* empty.
Wit_C26_DataDroppedOnDisconnect ==
    /\ last.path = "disconnected"
    /\ last.was_connected
    /\ last.emit = <<"Disconnected">>
    /\ last.drained = Format("?")
    /\ last.written = <<>>
    /\ ser_commands = <<>>

\* ================================================================ claims: SerialParser

\* The complete (newline-terminated) frames of a buffer, without their newlines.
RECURSIVE CompleteFrames(_)
CompleteFrames(bytes) ==
    IF Newline \notin Range(bytes) THEN <<>>
    ELSE LET k == Min({i \in 1..Len(bytes) : bytes[i] = Newline}) IN
         <<SubSeq(bytes, 1, k - 1)>> \o CompleteFrames(SubSeq(bytes, k + 1, Len(bytes)))

\* The bytes after the last newline of a buffer.
RECURSIVE TrailingPartial(_)
TrailingPartial(bytes) ==
    IF Newline \notin Range(bytes) THEN bytes
    ELSE LET k == Min({i \in 1..Len(bytes) : bytes[i] = Newline}) IN
         TrailingPartial(SubSeq(bytes, k + 1, Len(bytes)))

\* C8 (as claimed): every call consumes a positive number of bytes, and for a buffer
\* with at least one complete frame the drain returns the decoded complete frames in
\* order and leaves exactly the trailing partial frame.
Claim_C8_DrainYieldsFrames ==
    /\ \A i \in 1..Len(par_taken) : par_taken[i] > 0
    /\ (par_done /\ Newline \in Range(par_input)) =>
          /\ par_out = [i \in 1..Len(CompleteFrames(par_input)) |->
                           from_utf8_lossy(CompleteFrames(par_input)[i])]
          /\ par_buf = TrailingPartial(par_input)

\* C27 (as claimed): every call made by an iteration returns at most one Message, what
\* is left in the buffer is the input without a prefix, and the Messages sent so far are
\* the first complete frames of what was read, one per iteration and in order, all of
\* them once the parser returns None.
Claim_C27_OneFramePerIteration ==
    LET fr == CompleteFrames(par_input) IN
    /\ Len(par_out) = Len(par_taken)
    /\ par_buf = skip(par_input, Len(par_input) - Len(par_buf))
    /\ Len(par_out) <= Len(fr)
    /\ \A i \in 1..Len(par_out) : i <= Len(fr) => par_out[i] = from_utf8_lossy(fr[i])
    /\ par_done => Len(par_out) = Len(fr)

\* ================================================================ claims: gateway

\* C9: a SendState the proxy task handles after its target has disconnected reaches no
\* connection (no private channel and no socket holds its payload), and handling it
\* does not stop the proxy task: the task stops only once its command channel is closed.
Thm_C9_LateSendIsNoOp ==
    /\ \A n \in gw_late : \A id \in ClientIds :
          /\ \A k \in 1..Len(inbox[id]) : inbox[id][k].data # n
          /\ \A k \in 1..Len(wire[id]) : wire[id][k].data # n
    /\ gw_failed # {} => (proxy_alive \/ gw_cmd_closed)

\* C9 witness: the proxy task's send for a disconnected client failed, and a command
\* issued later was written to another client's socket.
Wit_C9_LaterCommandForwarded ==
    \E n \in gw_late, id \in ClientIds :
        /\ gw_failed # {}
        /\ id \notin gw_failed
        /\ \E k \in 1..Len(wire[id]) : wire[id][k].data > n

\* The Messages of id have all been passed on and the proxy task has nothing left to do.
DisconnectProcessed(id) ==
    /\ conn[id] = "closed"
    /\ registration = <<>>
    /\ gw_commands = <<>>
    /\ \A k \in 1..Len(gw_messages) : gw_messages[k].id # id

\* C10 (as claimed): registry entries belong to clients that have connected, an entry is
\* removed when a send to it fails, and once a client's disconnect has been processed the
\* registry holds no entry for it.
Claim_C10_RegistryPruned ==
    /\ \A id \in clients : conn[id] # "unborn"
    /\ \A id \in gw_failed : id \notin clients
    /\ \A id \in ClientIds : DisconnectProcessed(id) => id \notin clients

\* C11: whatever sits on a connection's private channel or was written to its socket
\* belongs to a command addressed to that connection's own identifier, and the payload of
\* one command is found at no more than one connection.
Thm_C11_SendToOnlyItsClient ==
    /\ \A id \in ClientIds :
          /\ \A k \in 1..Len(inbox[id]) : inbox[id][k].id = id
          /\ \A k \in 1..Len(wire[id]) : wire[id][k].id = id
    /\ \A n \in 1..gw_issued :
          Cardinality({id \in ClientIds :
                         \E k \in 1..Len(inbox[id] \o wire[id]) :
                            (inbox[id] \o wire[id])[k].data = n}) <= 1

\* C11 witness: every client is open and registered, and each has been written a
\* payload.
Wit_C11_EachGotItsOwn ==
    \A id \in ClientIds : conn[id] = "open" /\ id \in clients /\ wire[id] # <<>>

\* C15 (as claimed): Http::run never returns a success value.
Claim_C15_RunNeverSucceeds == http_result # "ok"

\* ================================================================ claims: Application
\* The step is a frame on the next Message of the server runtime.
IsFrameOnHttpMessage ==
    /\ gw_messages # <<>>
    /\ gw_messages' = Tail(gw_messages)
    /\ frames' = frames + 1

\* The next Message of the server runtime is a well-formed raw_serial request of a
\* client the Application knows, and the serial connection is available.
RawRequestPending ==
    /\ gw_messages # <<>>
    /\ LET m == Head(gw_messages) IN
          /\ m.kind = "ClientData"
          /\ application.connected_clients[m.id].present
          /\ from_str(m.data).ok
          /\ from_str(m.data).request.kind = "raw_serial"
    /\ available(application.serial)

BadPayloadPending ==
    /\ gw_messages # <<>>
    /\ LET m == Head(gw_messages) IN
          /\ m.kind = "ClientData"
          /\ application.connected_clients[m.id].present
          /\ ~from_str(m.data).ok

\* C21: a payload of a connected client that cannot be parsed makes the Application emit
\* exactly one command, a response with status failed and tick 0 addressed to that
\* client; no Serial command is emitted and the Application (that client's tick and
\* history, the serial connection state) is left as it was.
Thm_C21_BadPayloadAnswered ==
    [][ (IsFrameOnHttpMessage /\ BadPayloadPending) =>
            LET m == Head(gw_messages) IN
            /\ Len(lastPub') = 1
            /\ lastPub'[1].cmd.kind = "http"
            /\ lastPub'[1].cmd.id = m.id
            /\ lastPub'[1].cmd.data = Response(0, "failed")
            /\ {channels[i].mgr : i \in lastPub'[1].to} = {"http_effects"}
            /\ cmdq'["serial_effects"] = cmdq["serial_effects"]
            /\ application'.connected_clients[m.id] = application.connected_clients[m.id]
            /\ application'.serial = application.serial
            /\ application' = application
      ]_vars

\* C21 witness: a client has been written the failed response while serial is available;
\* its tick and history are those it was given when it connected.
Wit_C21_FailedResponseWritten ==
    \E id \in ClientIds :
        /\ application.connected_clients[id].present
        /\ application.connected_clients[id].tick = 0
        /\ application.connected_clients[id].history = <<>>
        /\ available(application.serial)
        /\ wire[id] = <<[id |-> id, data |-> Response(0, "failed")]>>
        /\ cmdq["serial_effects"] = <<>>

\* The step is a frame on the Message `message`.
IsFrameOn(message) == applied' = Append(applied, message)

\* The path of a SendState from the http manager's channel to a socket: command_handler
\* passes it to the proxy unchanged, the proxy hands it to the connection of the client
\* it is addressed to if that client is registered and its connection open, and the
\* connection writes what it is handed.
GatewayPassesOn ==
    /\ (/\ cmdq["http_effects"] # <<>>
        /\ cmdq'["http_effects"] = Tail(cmdq["http_effects"])) =>
          LET c == Head(cmdq["http_effects"]) IN
          gw_commands' = Append(gw_commands, [id |-> c.id, data |-> c.data])
    /\ (gw_commands # <<>> /\ gw_commands' = Tail(gw_commands)) =>
          LET c == Head(gw_commands) IN
          (c.id \in clients /\ conn[c.id] = "open") =>
              inbox'[c.id] = Append(inbox[c.id], c)
    /\ \A id \in ClientIds :
          (inbox[id] # <<>> /\ inbox'[id] = Tail(inbox[id]) /\ conn'[id] = "open") =>
              wire'[id] = Append(wire[id], Head(inbox[id]))

\* C22: when DisconnectedSerial is applied while two clients are connected, that same
\* update emits for each of the two a state payload with serial_available false, both
\* are put on the http manager's channel, and the gateway passes each on to its client.
Thm_C22_DisconnectToldToBoth ==
    [][ /\ (/\ IsFrameOn(EnvMessage("DisconnectedSerial"))
            /\ \A id \in ClientIds : application.connected_clients[id].present) =>
              /\ Len(lastPub') = Cardinality(ClientIds)
              /\ {lastPub'[i].cmd.id : i \in 1..Len(lastPub')} = ClientIds
              /\ \A i \in 1..Len(lastPub') :
                    /\ lastPub'[i].cmd.kind = "http"
                    /\ lastPub'[i].cmd.data.kind = "state"
                    /\ lastPub'[i].cmd.data.serial_available = FALSE
                    /\ {channels[k].mgr : k \in lastPub'[i].to} = {"http_effects"}
                    /\ cmdq'["http_effects"][Len(cmdq["http_effects"]) + i]
                          = lastPub'[i].cmd
              /\ Len(cmdq'["http_effects"]) = Len(cmdq["http_effects"]) + Len(lastPub')
        /\ GatewayPassesOn
      ]_vars

\* C22 witness: two clients connected and nothing else happened before DisconnectedSerial
\* was applied, and each has been written a state payload with serial_available false.
Wit_C22_BothWrittenUnavailable ==
    /\ Len(applied) = 3
    /\ applied[3] = EnvMessage("DisconnectedSerial")
    /\ \A id \in ClientIds :
          /\ Len(wire[id]) = 1
          /\ wire[id][1].data.kind = "state"
          /\ wire[id][1].data.serial_available = FALSE

\* A ClientConnected(id) is still waiting to be applied. Only ws sends ClientConnected,
\* once, for an identifier it has just minted.
ConnectedPending(id) ==
    \E k \in 1..Len(gw_messages) :
        gw_messages[k].kind = "ClientConnected" /\ gw_messages[k].id = id

\* C24 (as claimed): every identifier in the proxy task's registry is eventually a key
\* of the Application's connected_clients: it is one already, or the ClientConnected
\* that will make it one is still waiting to be applied.
Claim_C24_RegistryEventuallyReflected ==
    \A id \in clients :
        application.connected_clients[id].present \/ ConnectedPending(id)

\* The Messages of connection id in a sequence of Messages, in order.
MessagesFor(id, seq) == SelectSeq(seq, LAMBDA m : m.id = id)

\* ClientConnected first, then ClientData, and ClientDisconnected only as the last.
InLifecycleOrder(seq) ==
    seq # <<>> =>
        /\ seq[1].kind = "ClientConnected"
        /\ \A i \in 2..Len(seq) :
              \/ seq[i].kind = "ClientData"
              \/ seq[i].kind = "ClientDisconnected" /\ i = Len(seq)

\* C28: the Messages of a connection, those applied followed by those still waiting,
\* are one ClientConnected, then ClientData, then one ClientDisconnected, which is there
\* exactly when the connection task has ended and after which there is none; and a frame
\* applies the Message that has waited longest, so they are applied in that order.
Thm_C28_ConnectionLifecycleOrder ==
    [][ /\ \A id \in ClientIds :
              LET all == MessagesFor(id, applied' \o gw_messages') IN
              /\ InLifecycleOrder(all)
              /\ conn'[id] = "unborn" <=> all = <<>>
              /\ conn'[id] = "closed" <=>
                    (all # <<>> /\ all[Len(all)].kind = "ClientDisconnected")
              /\ InLifecycleOrder(MessagesFor(id, applied'))
        /\ IsFrameOnHttpMessage => applied' = Append(applied, Head(gw_messages))
        /\ gw_messages' # gw_messages =>
              \/ IsFrameOnHttpMessage
              \/ /\ Len(gw_messages') = Len(gw_messages) + 1
                 /\ SubSeq(gw_messages', 1, Len(gw_messages)) = gw_messages
      ]_vars

\* C28 witness: the three kinds of Message of one connection have been applied, in the
\* order the connection sent them.
Wit_C28_WholeLifecycleApplied ==
    \E id \in ClientIds :
        /\ conn[id] = "closed"
        /\ gw_messages = <<>>
        /\ Len(applied) = 3
        /\ applied[1] = [kind |-> "ClientConnected", id |-> id, data |-> ""]
        /\ applied[2].kind = "ClientData" /\ applied[2].id = id
        /\ applied[3] = [kind |-> "ClientDisconnected", id |-> id, data |-> ""]

\* ================================================================ claims: Application
\* and serial manager
\* C23: a configuration request of a connected client puts the connection state into
\* PendingAttempt and its Configure command on the serial manager's channel; a first
\* successful open of the serial manager sends Connected; and the frame that applies
\* ConnectedSerial leaves the connection state Idle.
Thm_C23_PendingThenIdle ==
    [][ /\ \A m \in LinkMessages :
              (/\ IsFrameOn(m)
               /\ m.kind = "ClientData"
               /\ application.connected_clients[m.id].present) =>
                  /\ application'.serial.connection = PendingAttempt
                  /\ application'.serial.last_config = from_str(m.data).request.value
                  /\ cmdq'["serial_effects"] # <<>>
                  /\ LET c == cmdq'["serial_effects"][Len(cmdq'["serial_effects"])] IN
                        c.op = "Configure" /\ c.arg = from_str(m.data).request.value
        /\ (iters' = iters + 1 /\ last'.open = "ok" /\ lifecycle = <<>> /\ ~rt_gone) =>
              /\ lifecycle' = <<"Connected">>
              /\ port' \in {config', NoPort}
        /\ IsFrameOn(EnvMessage("ConnectedSerial")) =>
              application'.serial.connection = Idle(NoPing)
        /\ (/\ application.serial.connection = PendingAttempt
            /\ IsFrameOn(EnvMessage("Tick"))) =>
              application'.serial.connection = PendingAttempt
      ]_vars

\* C23 witness: the program started without a configuration, a connected client asked
\* for one while the serial manager held no handle, and after the manager's open and the
\* frame on its Connected the state is Idle; the four Commands are the Configure, the
\* response and two state payloads.
Wit_C23_ConfiguredThenIdle ==
    /\ application.serial.connection.kind = "Idle"
    /\ application.serial.last_config = "devA"
    /\ lifecycle = <<"Connected">>
    /\ port = "devA"
    /\ Len(applied) = 3
    /\ applied[1].kind = "ClientConnected"
    /\ applied[2].kind = "ClientData"
    /\ applied[2].id = applied[1].id
    /\ applied[3].kind = "ConnectedSerial"
    /\ emitted = 4

\* A Configure the Application emitted has not reached the loop of Serial::run yet.
ConfigureInFlight ==
    \/ \E i \in 1..Len(cmdq["serial_effects"]) : cmdq["serial_effects"][i].op = "Configure"
    \/ \E i \in 1..Len(ser_commands) : ser_commands[i].k = "configure"

\* C36: a Configure makes the serial manager let go of the device it holds and attempt
\* the configured one, so that a confirmation moves the Application out of
\* PendingAttempt. Once the Configure has been received and every confirmation sent so
\* far applied, an Application still in PendingAttempt is therefore not facing a
\* manager that sits connected on an open handle, from which no confirmation comes.
Claim_C36_ConfigureReconnects ==
    (/\ application.serial.connection.kind = "PendingAttempt"
     /\ ~ConfigureInFlight
     /\ Len(LifecycleApplied) = Len(lifecycle)) =>
        ~(port # NoPort /\ is_connected)

\* ================================================================ claims: uploads

\* The lines still to be sent of the text being uploaded.
SendingLines == lines(application.serial.connection.file)

TickWhileSending ==
    /\ IsFrameOn(EnvMessage("Tick"))
    /\ application.serial.connection.kind = "SendingFile"

\* The Commands a frame has put on the serial manager's channel.
NewSerial ==
    SubSeq(cmdq'["serial_effects"], Len(cmdq["serial_effects"]) + 1,
           Len(cmdq'["serial_effects"]))

Raws(q) == SelectSeq(q, LAMBDA c : c.op = "Raw")

\* A text accepted right after the port was confirmed open and followed by k Ticks
\* alone: its first k lines have been sent, in the order of the text.
UploadInOrder(log, q, c) ==
    \A j \in 2..Len(log) :
        (/\ log[j - 1].kind = "ConnectedSerial"
         /\ log[j].kind = "FileUpload"
         /\ \A i \in (j + 1)..Len(log) : log[i].kind = "Tick") =>
            LET ls == lines(log[j].data)
                k == Len(log) - j
                m == Min({k, Len(ls)})
                r == Raws(q)
            IN /\ Len(r) >= m
               /\ \A i \in 1..m : r[Len(r) - m + i].arg = ls[i]
               /\ c.kind = IF k <= Len(ls) THEN "SendingFile" ELSE "Idle"

\* C29: while the connection state is SendingFile a Tick emits exactly one Command, a
\* Serial Raw carrying the first remaining line, and leaves the text without that line;
\* the Tick that finds no line left returns the state to Idle and emits no Raw; the
\* lines of a text followed by Ticks alone are sent one per Tick in the text's order.
Thm_C29_OneLinePerTick ==
    [][ /\ (TickWhileSending /\ SendingLines # <<>>) =>
              /\ emitted' = emitted + 1
              /\ Len(NewSerial) = 1
              /\ NewSerial[1].op = "Raw"
              /\ NewSerial[1].arg = Head(SendingLines)
              /\ application'.serial.connection.kind = "SendingFile"
              /\ lines(application'.serial.connection.file) = Tail(SendingLines)
        /\ (TickWhileSending /\ SendingLines = <<>>) =>
              /\ application'.serial.connection.kind = "Idle"
              /\ Raws(NewSerial) = <<>>
        /\ UploadInOrder(applied', cmdq'["serial_effects"],
                         application'.serial.connection)
      ]_vars

\* C29 witness: a two-line text was accepted and three Ticks followed; both lines were
\* sent in order and the third Tick returned the state to Idle.
Wit_C29_TwoLinesThenIdle ==
    /\ Len(applied) = 5
    /\ applied[1].kind = "ConnectedSerial"
    /\ applied[2] = FileUpload(<<"G1", LineEnd, "G2">>)
    /\ \A i \in 3..5 : applied[i].kind = "Tick"
    /\ Len(Raws(cmdq["serial_effects"])) = 2
    /\ Raws(cmdq["serial_effects"])[1].arg = "G1"
    /\ Raws(cmdq["serial_effects"])[2].arg = "G2"
    /\ application.serial.connection.kind = "Idle"

\* ================================================================ claims: connection state

\* The Message the last frame applied.
LastApplied == applied'[Len(applied')]

ConnectionChanges == application'.serial.connection # application.serial.connection

\* A frame has applied a confirmation of the serial manager, a Tick, or a client's
\* configuration or control request.
AppliedLifecycleTickOrRequest ==
    /\ applied' # applied
    /\ \/ LastApplied.kind \in {"ConnectedSerial", "DisconnectedSerial", "Tick"}
       \/ /\ LastApplied.kind = "ClientData"
          /\ from_str(LastApplied.data).ok
          /\ from_str(LastApplied.data).request.kind
                \in {"configuration", "retry_serial", "close_serial"}

\* C30, as claimed: the connection state changes only when the Application applies a
\* connect or disconnect confirmation, a Tick, or a client's configuration or control
\* request.
Claim_C30_OnlyLifecycleTickRequest ==
    [][ConnectionChanges => AppliedLifecycleTickOrRequest]_vars

\* C30, amended: the connection state changes only when the Application applies a
\* connect or disconnect confirmation, a Tick, a client's configuration or control
\* request, or a FileUpload; every other Message leaves it unchanged.
Thm_C30_OnlyLifecycleTickRequestUpload ==
    [][ConnectionChanges =>
          \/ AppliedLifecycleTickOrRequest
          \/ applied' # applied /\ LastApplied.kind = "FileUpload"]_vars

\* C30 witness: a confirmation and an upload have changed the state, and the Message
\* of another kind applied after them has left it as the upload set it.
Wit_C30_OtherMessageLeavesState ==
    /\ Len(applied) = 3
    /\ applied[1].kind = "ConnectedSerial"
    /\ applied[2].kind = "FileUpload"
    /\ applied[3].kind \in {"Serial", "Broadcast", "ClientConnected"}
    /\ application.serial.connection = SendingFile(applied[2].data)

\* ================================================================ claims: ticks

TickFrame == IsFrameOn(EnvMessage("Tick"))

Statuses(q) == SelectSeq(q, LAMBDA c : c.op = "Status")

\* The connection is Idle and its last ping is absent or more than 3 seconds before
\* the clock reading of the frame.
IdleAndPingOld ==
    /\ application.serial.connection.kind = "Idle"
    /\ \/ application.serial.connection.ping = NoPing
       \/ now' - application.serial.connection.ping > 3

\* The upload has no line left.
UploadExhausted ==
    /\ application.serial.connection.kind = "SendingFile"
    /\ SendingLines = <<>>

\* A Tick applied in Disconnected or PendingAttempt emits nothing and changes nothing;
\* the Tick applied right after ConnectedSerial emits one Command, a Status.
TickElsewhere ==
    /\ application.serial.connection.kind \in {"Disconnected", "PendingAttempt"} =>
          /\ emitted' = emitted
          /\ application' = application
    /\ (applied # <<>> /\ applied[Len(applied)].kind = "ConnectedSerial") =>
          /\ emitted' = emitted + 1
          /\ Len(NewSerial) = 1
          /\ NewSerial[1].op = "Status"

\* C31, as claimed: a Tick emits a Status only when applied with the connection Idle and
\* the last ping absent or more than 3 seconds old, and it then records the ping time.
Claim_C31_StatusOnlyWhenIdleAndOld ==
    [][TickFrame =>
          /\ Statuses(NewSerial) # <<>> =>
                /\ IdleAndPingOld
                /\ application'.serial.connection = Idle(now')
          /\ TickElsewhere]_vars

\* C31, amended: a Tick emits a Status only when applied with the connection Idle and
\* the last ping absent or more than 3 seconds old, or with an upload that has no line
\* left; it then records the ping time. A Tick applied in Disconnected or
\* PendingAttempt emits nothing and changes nothing, and the Tick applied right after
\* ConnectedSerial emits exactly one Status.
Thm_C31_StatusWhenIdleOldOrUploadDone ==
    [][TickFrame =>
          /\ Statuses(NewSerial) # <<>> =>
                /\ IdleAndPingOld \/ UploadExhausted
                /\ Len(Statuses(NewSerial)) = 1
                /\ application'.serial.connection = Idle(now')
          /\ TickElsewhere]_vars

\* C31 witness: the Tick after ConnectedSerial pinged, the Tick 2 seconds later did
\* not, and the Tick 4 seconds after the ping pinged again and recorded its time.
Wit_C31_PingAgainWhenOld ==
    /\ Len(applied) = 4
    /\ applied[1].kind = "ConnectedSerial"
    /\ \A i \in 2..4 : applied[i].kind = "Tick"
    /\ Len(Statuses(cmdq["serial_effects"])) = 2
    /\ Len(cmdq["serial_effects"]) = 2
    /\ application.serial.connection = Idle(2 * ClockStep)

\* ================================================================ claims: history

\* C32: each client's history is bounded by a fixed bound. A fixed bound is below the
\* number of Messages of a long enough run, so in such a run no client's history holds
\* an entry for every Message applied after the client's connection.
Claim_C32_HistoryBounded ==
    \A id \in ClientIds :
        Len(application.connected_clients[id].history) < MaxAppFrames - 1

\* ================================================================ claims: routing in run

\* The place of a manager in the registration order of run.
ChannelOf(mgr) == CHOOSE i \in 1..Len(channels) : channels[i].mgr = mgr

\* C33: with the managers registered as in run, every Serial Command the Application
\* emits is placed on the serial manager's channel and on no other, every Http Command
\* on the http manager's channel and on no other, and the channels of the two tickers
\* never hold a Command.
Thm_C33_CommandsReachTheirManager ==
    /\ \A i \in 1..Len(lastPub) :
          lastPub[i].to =
              IF lastPub[i].cmd.kind = "serial" THEN {ChannelOf("serial_effects")}
              ELSE {ChannelOf("http_effects")}
    /\ \A i \in 1..Len(cmdq["serial_effects"]) : cmdq["serial_effects"][i].kind = "serial"
    /\ \A i \in 1..Len(cmdq["http_effects"]) : cmdq["http_effects"][i].kind = "http"
    /\ cmdq["serial_ticks"] = <<>>
    /\ cmdq["broadcast_ticks"] = <<>>

\* C33 witness: one frame has emitted a Serial and an Http Command, and each waits on
\* its manager's channel.
Wit_C33_BothKindsRouted ==
    \E i, j \in 1..Len(lastPub) :
        /\ lastPub[i].cmd.kind = "serial"
        /\ lastPub[j].cmd.kind = "http"
        /\ \E k \in 1..Len(cmdq["serial_effects"]) :
              cmdq["serial_effects"][k] = lastPub[i].cmd
        /\ \E k \in 1..Len(cmdq["http_effects"]) :
              cmdq["http_effects"][k] = lastPub[j].cmd

\* ================================================================ claims: grbl

\* <Run,MPos:1.000,2.000,3.000,WPos:0,0,0>
RunReport ==
    <<"<", "Run", Comma, "MPos:", "1.000", Comma, "2.000", Comma, "3.000", Comma,
      "WPos:", "0", Comma, "0", Comma, "0", ">">>

Numeric(text) == Len(text) = 1 /\ text[1] \in DOMAIN NumValue

ProxyHandlesCommand == gw_commands # <<>> /\ gw_commands' = Tail(gw_commands)

\* C35: a SendState(id, payload) the Application emitted after applying
\* ClientConnected(id), handled by the proxy task while id's connection is open, is
\* sent on to that connection.
Claim_C35_NoCommandBeforeRegistration ==
    [][ProxyHandlesCommand =>
          LET c == Head(gw_commands) IN
          (/\ conn[c.id] = "open"
           /\ \E i \in 1..Len(applied) :
                 applied[i].kind = "ClientConnected" /\ applied[i].id = c.id) =>
              inbox'[c.id] = Append(inbox[c.id], c)]_vars

\* ================================================================ claims: state payloads

\* The state payloads among the Commands of the last frame.
StatePayloads ==
    {lastPub[i].cmd.data : i \in {j \in 1..Len(lastPub) :
                                    /\ lastPub[j].cmd.kind = "http"
                                    /\ lastPub[j].cmd.data.kind = "state"}}

\* C37: every state payload the Application emits carries a serial_available flag
\* that says whether the connection state is Idle when the payload is emitted.
Claim_C37_PayloadFlagIsCurrent ==
    \A payload \in StatePayloads :
        payload.serial_available = available(application.serial)

\* ================================================================ claims: addressing

\* The places in a log of the Messages that put id into the map or take it out.
Arrivals(log, id) ==
    {i \in 1..Len(log) : /\ log[i].id = id
                         /\ log[i].kind \in {"ClientConnected", "ClientDisconnected"}}

\* The ids the Http Commands of a frame are addressed to.
Addressed(log) == {log[i].cmd.id : i \in {j \in 1..Len(log) : log[j].cmd.kind = "http"}}

\* C38: every SendState the Application emits is addressed to a client in its map;
\* the last of ClientConnected(id) and ClientDisconnected(id) applied before a
\* SendState(id, _) is ClientConnected(id); a ClientData from an id not in the map
\* emits nothing and changes nothing.
Thm_C38_SendToKnownClients ==
    [][applied' # applied =>
          /\ \A id \in Addressed(lastPub') :
                /\ application'.connected_clients[id].present
                /\ Arrivals(applied', id) # {}
                /\ applied'[Max(Arrivals(applied', id))].kind = "ClientConnected"
          /\ (/\ LastApplied.kind = "ClientData"
              /\ ~application.connected_clients[LastApplied.id].present) =>
                /\ application' = application
                /\ emitted' = emitted]_vars

\* C38 witness: two clients connected, one disconnected, and the line the device sent
\* next was passed on to the other alone.
Wit_C38_OnlyTheConnectedClient ==
    /\ Len(applied) = 4
    /\ applied[1].kind = "ClientConnected"
    /\ applied[2].kind = "ClientConnected"
    /\ applied[2].id # applied[1].id
    /\ applied[3] = [kind |-> "ClientDisconnected", id |-> applied[1].id, data |-> ""]
    /\ applied[4].kind = "Serial"
    /\ Addressed(lastPub) = {applied[2].id}

\* ================================================================ claims: accepting uploads

\* The frame applies a FileUpload.
UploadFrameApplied == applied' # applied /\ LastApplied.kind = "FileUpload"

\* C39: a FileUpload applied in Idle moves the connection to SendingFile with the
\* uploaded text and changes nothing else; applied in any other state it leaves the
\* Application as it was; in both cases no Command is emitted.
Thm_C39_UploadOnlyWhenIdle ==
    [][UploadFrameApplied =>
          /\ emitted' = emitted
          /\ lastPub' = <<>>
          /\ application' =
                IF application.serial.connection.kind = "Idle"
                THEN [application EXCEPT
                         !.serial.connection = SendingFile(LastApplied.data)]
                ELSE application]_vars

\* C39 witness: an upload was accepted in Idle and a second, different upload came
\* while the first was still being sent; the first text is still the one held.
Wit_C39_SecondUploadIgnored ==
    /\ Len(applied) = 3
    /\ applied[1].kind = "ConnectedSerial"
    /\ applied[2].kind = "FileUpload"
    /\ applied[3].kind = "FileUpload"
    /\ applied[3].data # applied[2].data
    /\ application.serial.connection = SendingFile(applied[2].data)

\* ================================================================ claims: the proxy loop

\* What command_mapper lets through of a sequence of Commands, in order.
Forwardable(commands) ==
    LET kept == SelectSeq(commands, LAMBDA c : command_mapper(c).some)
    IN [i \in 1..Len(kept) |-> command_mapper(kept[i]).value]

\* What message_mapper makes of a sequence of Messages, in order.
Wrapped(produced) == [i \in 1..Len(produced) |-> message_mapper(produced[i])]

\* C40: the commands in the command proxy channel, the one the round's future holds
\* and those still to be received are, in this order, the Commands command_mapper
\* accepts of all that were sent; and, while the effect runtime holds its ends, the
\* same is true of the Messages: none is lost, doubled or out of order.
Thm_C40_ProxyKeepsTraffic ==
    /\ command_proxy \o command_handler.item \o Forwardable(http_commands)
          = Forwardable(made_commands)
    /\ ~http_gone =>
          http_messages \o Wrapped(message_handler.item) \o Wrapped(message_proxy)
              = Wrapped(made_messages)

\* C40 witness: rounds won by either future have passed on two commands and two
\* Messages, a Command the mapper refuses was received, and nothing is left waiting.
Wit_C40_BothDirectionsForwarded ==
    /\ Len(command_proxy) = 2
    /\ Len(http_messages) = 2
    /\ Len(made_commands) = 3
    /\ http_commands = <<>>
    /\ message_proxy = <<>>
    /\ http_pc = "top"

\* ================================================================ claims: frames
\* C25: a frame applies at most one Message. A frame that applies none (the timeout)
\* publishes nothing and leaves every channel as it was; a frame that applies one takes
\* it from the head of one receiver's channel and leaves the Messages of every other
\* receiver queued; and no step other than a manager's send changes what is applied or
\* queued, so no Message is lost and none is applied twice.
Thm_C25_OneMessagePerFrame ==
    [][ /\ Len(applied') <= Len(applied) + 1
        /\ SubSeq(applied', 1, Len(applied)) = applied
        /\ (frames' = frames + 1 /\ applied' = applied) =>
              /\ lastPub' = <<>>
              /\ cmdq' = cmdq
              /\ msgq' = msgq
              /\ emitted' = emitted
        /\ applied' # applied =>
              /\ frames' = frames + 1
              /\ \E m \in Managers :
                    /\ msgq[m] # <<>>
                    /\ applied' = Append(applied, Head(msgq[m]))
                    /\ msgq' = [msgq EXCEPT ![m] = Tail(@)]
        /\ sent' = sent =>
              \A m \in Managers :
                  MessagesOf(m, applied') \o msgq'[m] = MessagesOf(m, applied) \o msgq[m]
      ]_vars

\* C25 witness: of two frames one applied a manager's Message and the other applied
\* none, and the first Message of another manager is queued, neither lost nor applied.
Wit_C25_OneAppliedOtherQueued ==
    /\ frames = 2
    /\ Len(applied) = 1
    /\ \E m \in Managers :
          /\ m # applied[1].from
          /\ msgq[m] # <<>>
          /\ Head(msgq[m]).n = 1
====
